---- MODULE Spec2Model ----
(***************************************************************************)
(* A model of uwsm (src/uwsm/main.py): the unit store and the unit         *)
(* synthesizer, the start/stop invocations of main() with their signal     *)
(* handler, and the environment preparation and cleanup run as aux         *)
(* actions by the service manager.                                         *)
(*                                                                         *)
(* Python strings that the program inspects character by character (the    *)
(* compositor id) are sequences of one-character strings; other strings    *)
(* are TLA+ strings.  A unit path is a sequence of path components, each a *)
(* pair <<stem, extension>>, so "a@x.service.d/50_custom.conf" is          *)
(* << <<"a@x.service", "d">>, <<"50_custom", "conf">> >>; a component      *)
(* whose last part is not set off by a dot is a triple <<stem, separator,  *)
(* rest>>, so "x_conf" is <<"x", "_", "conf">>.                            *)
(***************************************************************************)
EXTENDS Integers, Sequences, FiniteSets, TLC

(***************************************************************************)
(* Bounds of the model.                                                    *)
(***************************************************************************)
\* signals delivered to one start invocation
MaxSignals == 2
\* job handles the service manager hands out before reusing one
MaxJobs == 2
\* characters of the compositor ids whose escaping is checked
MaxIdLen == 3

(***************************************************************************)
(* Varnames: the fixed sets of variable names.                             *)
(***************************************************************************)
always_export ==
    {"XDG_SESSION_ID", "XDG_SESSION_TYPE", "XDG_VTNR", "XDG_CURRENT_DESKTOP",
     "XDG_SESSION_DESKTOP", "XDG_MENU_PREFIX", "PATH"}

never_export == {"PWD", "LS_COLORS", "INVOCATION_ID", "SHLVL", "SHELL"}

always_unset == {"DISPLAY", "WAYLAND_DISPLAY"}

always_cleanup ==
    {"DISPLAY", "WAYLAND_DISPLAY", "XDG_SESSION_ID", "XDG_SESSION_TYPE",
     "XDG_VTNR", "XDG_CURRENT_DESKTOP", "XDG_SESSION_DESKTOP",
     "XDG_MENU_PREFIX", "PATH", "XCURSOR_THEME", "XCURSOR_SIZE", "LANG"}

never_cleanup == {"SSH_AGENT_LAUNCHER", "SSH_AUTH_SOCK", "SSH_AGENT_PID"}

(***************************************************************************)
(* Characters and strings.                                                 *)
(***************************************************************************)
\* ord() of the characters the model uses
Ord(c) ==
    CASE c = "-" -> 45
      [] c = "." -> 46
      [] c = "/" -> 47
      [] c = "!" -> 33
      [] c = "_" -> 95
      [] c = "a" -> 97
      [] c = "m" -> 109
      [] c = "s" -> 115
      [] c = "w" -> 119
      [] c = "y" -> 121
      [] c = "Z" -> 90
      [] c = "0" -> 48
      [] c = "9" -> 57
      [] c = ":" -> 58

\* "".join(chars)
RECURSIVE Join(_)
Join(chars) ==
    IF chars = <<>> THEN "" ELSE Head(chars) \o Join(Tail(chars))

\* "\\x%02x" % b for the characters the model escapes
char2cesc(c) ==
    CASE c = "-" -> "\\x2d"
      [] c = "!" -> "\\x21"
      [] c = "." -> "\\x2e"
      [] OTHER -> "\\x3f"

\* the loop of simple_systemd_escape over the characters of the string
RECURSIVE EscapeChars(_)
EscapeChars(chars) ==
    IF chars = <<>> THEN ""
    ELSE LET ch == Head(chars)
             ucp == Ord(ch)
             out == IF ch = "/" THEN "-"
                    ELSE IF \/ ucp \in {46, 95}
                            \/ (48 <= ucp /\ ucp <= 58)
                            \/ (65 <= ucp /\ ucp <= 90)
                            \/ (97 <= ucp /\ ucp <= 122)
                         THEN ch
                         ELSE char2cesc(ch)
         IN  out \o EscapeChars(Tail(chars))

simple_systemd_escape(chars, start) ==
    IF start /\ chars # <<>> /\ Head(chars) = "."
    THEN char2cesc(".") \o EscapeChars(Tail(chars))
    ELSE EscapeChars(chars)

\* the characters of the model: ord() is defined on them
ModelChars ==
    {"-", ".", "/", "!", "_", "a", "m", "s", "w", "y", "Z", "0", "9", ":"}

\* chr() on the code points of the model
Chr(ucp) == CHOOSE c \in ModelChars : Ord(c) = ucp

HexDigits ==
    <<"0", "1", "2", "3", "4", "5", "6", "7", "8", "9", "a", "b", "c", "d",
      "e", "f">>

\* int(c, 16) of one digit
HexVal(c) == CHOOSE n \in 0..15 : HexDigits[n + 1] = c

\* "\\x%02x" % b as characters
cesc_chars(c) ==
    <<"\\", "x", HexDigits[(Ord(c) \div 16) + 1], HexDigits[(Ord(c) % 16) + 1]>>

\* the characters of simple_systemd_escape(string, start): the loop over
\* the characters of the string
RECURSIVE EscapedLoop(_)
EscapedLoop(chars) ==
    IF chars = <<>> THEN <<>>
    ELSE LET ch == Head(chars)
             ucp == Ord(ch)
             out == IF ch = "/" THEN <<"-">>
                    ELSE IF \/ ucp \in {46, 95}
                            \/ (48 <= ucp /\ ucp <= 58)
                            \/ (65 <= ucp /\ ucp <= 90)
                            \/ (97 <= ucp /\ ucp <= 122)
                         THEN <<ch>>
                         ELSE cesc_chars(ch)
         IN  out \o EscapedLoop(Tail(chars))

EscapedChars(chars, start) ==
    IF start /\ chars # <<>> /\ Head(chars) = "."
    THEN cesc_chars(".") \o EscapedLoop(Tail(chars))
    ELSE EscapedLoop(chars)

\* a decoding that leaves the escapes as they are
NoDecode(chars) == chars

\* bytes(active_id, "UTF-8").decode("unicode_escape") on the characters of
\* an instance string: "\\xNN" becomes chr(0xNN)
RECURSIVE unicode_escape(_)
unicode_escape(chars) ==
    IF chars = <<>> THEN <<>>
    ELSE IF /\ Len(chars) >= 4 /\ chars[1] = "\\" /\ chars[2] = "x"
            /\ \A i \in {3, 4} : \E n \in 0..15 : HexDigits[n + 1] = chars[i]
         THEN <<Chr(16 * HexVal(chars[3]) + HexVal(chars[4]))>>
              \o unicode_escape(SubSeq(chars, 5, Len(chars)))
         ELSE <<Head(chars)>> \o unicode_escape(Tail(chars))

\* the specifier %I of a unit: the instance with "-" read as "/" and
\* "\\xNN" as chr(0xNN)
RECURSIVE SpecifierI(_)
SpecifierI(chars) ==
    IF chars = <<>> THEN <<>>
    ELSE IF /\ Len(chars) >= 4 /\ chars[1] = "\\" /\ chars[2] = "x"
            /\ \A i \in {3, 4} : \E n \in 0..15 : HexDigits[n + 1] = chars[i]
         THEN <<Chr(16 * HexVal(chars[3]) + HexVal(chars[4]))>>
              \o SpecifierI(SubSeq(chars, 5, Len(chars)))
         ELSE <<IF Head(chars) = "-" THEN "/" ELSE Head(chars)>>
              \o SpecifierI(Tail(chars))

\* Val.wm_id: \A[a-zA-Z0-9_:.-]+\Z
Val_wm_id(chars) ==
    /\ chars # <<>>
    /\ \A i \in 1..Len(chars) :
         LET ucp == Ord(chars[i])
         IN  \/ (97 <= ucp /\ ucp <= 122)
             \/ (65 <= ucp /\ ucp <= 90)
             \/ (48 <= ucp /\ ucp <= 58)
             \/ ucp \in {95, 46, 45}

\* sep.join(strs)
RECURSIVE JoinWith(_, _)
JoinWith(strs, sep) ==
    IF strs = <<>> THEN ""
    ELSE IF Len(strs) = 1 THEN strs[1]
    ELSE strs[1] \o sep \o JoinWith(Tail(strs), sep)

\* the order-preserving deduplication loop of fill_wm_globals
RECURSIVE Dedup(_, _)
Dedup(names, ddn) ==
    IF names = <<>> THEN ddn
    ELSE Dedup(Tail(names),
               IF \E i \in 1..Len(ddn) : ddn[i] = Head(names)
               THEN ddn ELSE Append(ddn, Head(names)))

(***************************************************************************)
(* The unit store: update_unit and remove_unit on the runtime unit root.   *)
(* A store state is a record: files (unit path -> content, defined on the  *)
(* existing files), dirs (the existing directories, <<>> being the unit    *)
(* root), changed (units_changed), raised (a ValueError left the call),    *)
(* and two observations of the batch: wrote (a file was written or         *)
(* removed) and anyret (some update_unit call returned True).              *)
(***************************************************************************)
\* the content read for a missing file: old_data = ""
NoData == [marker |-> "", data |-> <<>>]

UnitExts == {"service", "slice", "scope", "target", "socket"}

\* the part of a path component after its last separator, and the separator
Ext(component) == component[Len(component)]

Sep(component) == IF Len(component) = 2 THEN "." ELSE component[2]

\* [a-zA-Z0-9_:.\\-]+ : every non-empty stem of the model is a word of the
\* class
ClassStem(stem) == stem # ""

\* Val.unit_ext.search(unit): a suffix "<word>.<ext>", or
\* "<word>.d/<word><any character>conf": the dot before "conf" is not
\* escaped in the pattern
Val_unit_ext(unit) ==
    /\ unit # <<>>
    /\ LET last == unit[Len(unit)]
       IN  \/ Len(last) = 2 /\ Ext(last) \in UnitExts /\ ClassStem(last[1])
           \/ /\ Len(unit) >= 2
              /\ LET parent == unit[Len(unit) - 1]
                 IN  Len(parent) = 2 /\ Ext(parent) = "d" /\ ClassStem(parent[1])
              /\ Ext(last) = "conf" /\ Sep(last) # "" /\ ClassStem(last[1])

\* unit.count("/") > 1
TooDeep(unit) == Len(unit) - 1 > 1

Put(f, k, v) == [x \in DOMAIN f \cup {k} |-> IF x = k THEN v ELSE f[x]]

Del(f, k) == [x \in DOMAIN f \ {k} |-> f[x]]

\* os.path.dirname(unit)
Dirname(unit) == SubSeq(unit, 1, Len(unit) - 1)

\* the unit root and the subdirectories update_unit creates when missing
DirsOf(unit) == {SubSeq(unit, 1, k) : k \in 0..(Len(unit) - 1)}

\* a comparison that never finds the content equal
AlwaysDiffers(data, old_data) == FALSE

\* a comparison of the X-UWSM-ID line alone
SameMarker(data, old_data) == data.marker = old_data.marker

\* "if data == old_data: return False"
SameData(data, old_data) == data = old_data

\* a dry run that writes and removes all the same
WritesAlways(dry) == TRUE

\* "if not args.dry_run:" before every mkdir, write, remove and rmdir
Writes(dry) == ~dry

UpdateUnit(st, unit, data, dry) ==
    IF st.raised THEN st
    ELSE IF ~Val_unit_ext(unit) \/ TooDeep(unit)
    THEN [st EXCEPT !.raised = TRUE]
    ELSE LET dirs1 == IF Writes(dry) THEN st.dirs \cup DirsOf(unit) ELSE st.dirs
             old_data == IF unit \in DOMAIN st.files
                         THEN st.files[unit] ELSE NoData
         IN  IF SameData(data, old_data)
             THEN [st EXCEPT !.dirs = dirs1]
             ELSE [st EXCEPT !.dirs = dirs1,
                             !.files = IF Writes(dry) THEN Put(@, unit, data) ELSE @,
                             !.wrote = @ \/ Writes(dry),
                             !.anyret = TRUE,
                             !.changed = TRUE]

RemoveUnit(st, unit, dry) ==
    IF st.raised THEN st
    ELSE IF ~Val_unit_ext(unit) \/ TooDeep(unit)
    THEN [st EXCEPT !.raised = TRUE]
    ELSE LET isfile == unit \in DOMAIN st.files
             files1 == IF isfile /\ Writes(dry) THEN Del(st.files, unit) ELSE st.files
             subdir == Dirname(unit)
             \* set(os.listdir(unit_subdir_path)) - {unit_filename}
             others == {p \in DOMAIN files1 :
                          Len(p) > 1 /\ Dirname(p) = subdir /\ p # unit}
             dirs1 == IF Len(unit) > 1 /\ subdir \in st.dirs
                         /\ others = {} /\ Writes(dry)
                      THEN st.dirs \ {subdir} ELSE st.dirs
         IN  [st EXCEPT !.files = files1,
                         !.dirs = dirs1,
                         !.wrote = @ \/ (isfile /\ Writes(dry)),
                         !.changed = @ \/ isfile]

(***************************************************************************)
(* fill_wm_globals, for a compositor given as an executable (the desktop   *)
(* entry catalog is an external collaborator).  a is the parsed command    *)
(* line: wm_id (characters), wm_args, desktop_names (already split),       *)
(* desktop_names_exclusive, wm_name, wm_comment, and from the process      *)
(* environment xdg_current_desktop (already split).                        *)
(***************************************************************************)
NoWm ==
    [wm_id |-> "", wm_id_unit_string |-> "", wm_cmdline |-> <<>>,
     wm_cli_args |-> <<>>, wm_desktop_names |-> <<>>,
     wm_cli_desktop_names |-> <<>>, wm_cli_desktop_names_exclusive |-> FALSE,
     wm_name |-> "", wm_description |-> ""]

FillWmGlobals(a, active) ==
    LET wm_cmdline == <<Join(a.wm_id)>> \o a.wm_args
    IN  [wm_id |-> Join(a.wm_id),
         wm_id_unit_string |-> simple_systemd_escape(a.wm_id, FALSE),
         wm_cmdline |-> wm_cmdline,
         wm_cli_args |-> a.wm_args,
         wm_desktop_names |->
             Dedup(IF a.desktop_names_exclusive
                   THEN a.desktop_names
                   ELSE (IF active THEN <<>> ELSE a.xdg_current_desktop)
                        \o <<wm_cmdline[1]>> \o a.desktop_names,
                   <<>>),
         wm_cli_desktop_names |-> Dedup(a.desktop_names, <<>>),
         wm_cli_desktop_names_exclusive |-> a.desktop_names_exclusive,
         wm_name |-> a.wm_name,
         wm_description |-> a.wm_comment]

(***************************************************************************)
(* generate_units: the list of update_unit and remove_unit calls it makes, *)
(* in order.  A content is a record: marker is the value of its X-UWSM-ID  *)
(* line, data the rest; a generic unit's text depends on the unit and, for *)
(* the three services, on the slice; a drop-in is the list of the parts    *)
(* the code appends.                                                       *)
(***************************************************************************)
Generic(name, slice) == [marker |-> "GENERIC", data |-> <<name, slice>>]

GenericCalls(slice) ==
    << [op |-> "update", unit |-> << <<"wayland-session-pre@", "target">> >>,
        data |-> Generic("wayland-session-pre@.target", "")],
       [op |-> "update", unit |-> << <<"wayland-session@", "target">> >>,
        data |-> Generic("wayland-session@.target", "")],
       [op |-> "update",
        unit |-> << <<"wayland-session-xdg-autostart@", "target">> >>,
        data |-> Generic("wayland-session-xdg-autostart@.target", "")],
       [op |-> "update", unit |-> << <<"wayland-session-shutdown", "target">> >>,
        data |-> Generic("wayland-session-shutdown.target", "")],
       [op |-> "update", unit |-> << <<"wayland-wm-env@", "service">> >>,
        data |-> Generic("wayland-wm-env@.service", slice)],
       [op |-> "update", unit |-> << <<"wayland-wm@", "service">> >>,
        data |-> Generic("wayland-wm@.service", slice)],
       [op |-> "update", unit |-> << <<"wayland-wm-app-daemon", "service">> >>,
        data |-> Generic("wayland-wm-app-daemon.service", slice)],
       [op |-> "update", unit |-> << <<"app-graphical", "slice">> >>,
        data |-> Generic("app-graphical.slice", "")],
       [op |-> "update", unit |-> << <<"background-graphical", "slice">> >>,
        data |-> Generic("background-graphical.slice", "")],
       [op |-> "update", unit |-> << <<"session-graphical", "slice">> >>,
        data |-> Generic("session-graphical.slice", "")] >>

TweakCall ==
    [op |-> "update",
     unit |-> << <<"app-@autostart.service", "d">>, <<"slice-tweak", "conf">> >>,
     data |-> Generic("app-@autostart.service.d/slice-tweak.conf", "")]

wm_specific_preloader(wm) ==
    << <<"wayland-wm-env@" \o wm.wm_id_unit_string \o ".service", "d">>,
       <<"50_custom", "conf">> >>

wm_specific_service(wm) ==
    << <<"wayland-wm@" \o wm.wm_id_unit_string \o ".service", "d">>,
       <<"50_custom", "conf">> >>

Prepend(wm) ==
    IF wm.wm_cli_desktop_names_exclusive
    THEN " -eD " \o JoinWith(wm.wm_cli_desktop_names, ":")
    ELSE IF wm.wm_desktop_names # <<wm.wm_cmdline[1]>>
    THEN " -D " \o JoinWith(wm.wm_desktop_names, ":")
    ELSE ""

AppendArgs(wm) ==
    IF wm.wm_cli_args # <<>> THEN " " \o JoinWith(wm.wm_cli_args, " ") ELSE ""

wm_specific_preloader_data(wm) ==
    <<"[Unit]">>
    \o (IF wm.wm_name # ""
        THEN <<"Description=Environment preloader for " \o wm.wm_name>>
        ELSE <<>>)
    \o (IF Prepend(wm) # "" \/ AppendArgs(wm) # ""
        THEN <<"ExecStart=aux prepare-env" \o Prepend(wm) \o " %I"
               \o AppendArgs(wm)>>
        ELSE <<>>)

wm_specific_service_data(wm) ==
    <<"[Unit]">>
    \o (IF wm.wm_name # "" \/ wm.wm_description # ""
        THEN <<"Description=Main service for "
               \o JoinWith(SelectSeq(<<IF wm.wm_name # "" THEN wm.wm_name
                                        ELSE wm.wm_cmdline[1],
                                       wm.wm_description>>,
                                     LAMBDA s : s # ""), ", ")>>
        ELSE <<>>)
    \o (IF AppendArgs(wm) # ""
        THEN <<"ExecStart=aux exec %I" \o AppendArgs(wm)>>
        ELSE <<>>)

\* a drop-in written whatever it holds
DropInAlways(unit, wm_id, data) ==
    [op |-> "update", unit |-> unit, data |-> [marker |-> wm_id, data |-> data]]

\* "if len(data) > 1: update_unit(...) else: remove_unit(...)"
DropInCall(unit, wm_id, data) ==
    IF Len(data) > 1
    THEN [op |-> "update", unit |-> unit,
          data |-> [marker |-> wm_id, data |-> data]]
    ELSE [op |-> "remove", unit |-> unit, data |-> NoData]

\* the calls without the last one
GenerateWithoutTweak(wm, use_session_slice) ==
    GenericCalls(IF use_session_slice THEN "session.slice" ELSE "app.slice")
    \o <<DropInCall(wm_specific_preloader(wm), wm.wm_id,
                    wm_specific_preloader_data(wm)),
         DropInCall(wm_specific_service(wm), wm.wm_id,
                    wm_specific_service_data(wm))>>

GenerateCalls(wm, use_session_slice) ==
    GenericCalls(IF use_session_slice THEN "session.slice" ELSE "app.slice")
    \o <<DropInCall(wm_specific_preloader(wm), wm.wm_id,
                    wm_specific_preloader_data(wm)),
         DropInCall(wm_specific_service(wm), wm.wm_id,
                    wm_specific_service_data(wm)),
         TweakCall>>

RECURSIVE ApplyCalls(_, _, _)
ApplyCalls(st, calls, dry) ==
    IF calls = <<>> THEN st
    ELSE LET c == Head(calls)
         IN  ApplyCalls(IF c.op = "update"
                        THEN UpdateUnit(st, c.unit, c.data, dry)
                        ELSE RemoveUnit(st, c.unit, dry),
                        Tail(calls), dry)

\* generate_units on the store (files, dirs): units_changed starts False
GenerateUnits(files, dirs, wm, use_session_slice, dry) ==
    ApplyCalls([files |-> files, dirs |-> dirs, changed |-> FALSE,
                raised |-> FALSE, wrote |-> FALSE, anyret |-> FALSE],
               GenerateCalls(wm, use_session_slice), dry)

(***************************************************************************)
(* remove_units: every file under the unit root whose X-UWSM-ID line       *)
(* equals the marker (an id was given) or starts with it (no id) is handed *)
(* to remove_unit, in the order of sorted(os.walk()): the files of the     *)
(* root by name, then those of each subdirectory.  A ValueError of         *)
(* remove_unit ends the loop.                                              *)
(***************************************************************************)
IdSway == <<"s", "w", "a", "y">>
IdWm == <<"w", "-", "m">>
IdBad == <<"s", "!">>

Marked(content, only) ==
    IF only # "" THEN content.marker = only ELSE content.marker # ""

\* two files that are no units: "notes.txt" in the root and "x_conf" in the
\* drop-in directory of wayland-wm@sway.service
NotesFile == << <<"notes", "txt">> >>

ConfLikeFile == << <<"wayland-wm@sway.service", "d">>, <<"x", "_", "conf">> >>

\* the paths of the model in the order of the walk
WalkOrder ==
    LET sway == [wm_id_unit_string |-> simple_systemd_escape(IdSway, FALSE)]
        w_m == [wm_id_unit_string |-> simple_systemd_escape(IdWm, FALSE)]
    IN  << << <<"app-graphical", "slice">> >>,
           << <<"background-graphical", "slice">> >>,
           NotesFile,
           << <<"session-graphical", "slice">> >>,
           << <<"wayland-session-pre@", "target">> >>,
           << <<"wayland-session-shutdown", "target">> >>,
           << <<"wayland-session-xdg-autostart@", "target">> >>,
           << <<"wayland-session@", "target">> >>,
           << <<"wayland-wm-app-daemon", "service">> >>,
           << <<"wayland-wm-env@", "service">> >>,
           << <<"wayland-wm@", "service">> >>,
           TweakCall.unit,
           wm_specific_preloader(sway),
           wm_specific_preloader(w_m),
           wm_specific_service(sway),
           ConfLikeFile,
           wm_specific_service(w_m) >>

RECURSIVE RemoveAll(_, _, _)
RemoveAll(st, unit_files, dry) ==
    IF unit_files = <<>> THEN st
    ELSE RemoveAll(RemoveUnit(st, Head(unit_files), dry), Tail(unit_files), dry)

RemoveUnits(files, dirs, changed, only, dry) ==
    RemoveAll([files |-> files, dirs |-> dirs, changed |-> changed,
               raised |-> FALSE, wrote |-> FALSE, anyret |-> FALSE],
              SelectSeq(WalkOrder,
                        LAMBDA u : u \in DOMAIN files /\ Marked(files[u], only)),
              dry)

(***************************************************************************)
(* The inputs of the model: compositor ids, command lines, the process     *)
(* environment.                                                            *)
(***************************************************************************)
Descriptors ==
    LET base == [wm_id |-> IdSway, wm_args |-> <<>>, desktop_names |-> <<>>,
                 desktop_names_exclusive |-> FALSE, wm_name |-> "",
                 wm_comment |-> "", xdg_current_desktop |-> <<>>,
                 in_path |-> TRUE]
    IN  { base,
          [base EXCEPT !.wm_name = "Sway"],
          [base EXCEPT !.wm_comment = "Tiling"],
          [base EXCEPT !.wm_args = <<"--debug">>],
          [base EXCEPT !.desktop_names = <<"wlroots">>],
          [base EXCEPT !.desktop_names = <<"sway", "wlroots">>,
                       !.desktop_names_exclusive = TRUE],
          [base EXCEPT !.wm_id = IdWm],
          [base EXCEPT !.wm_id = IdWm, !.wm_name = "WM"],
          [base EXCEPT !.wm_id = IdBad],
          [base EXCEPT !.in_path = FALSE] }

\* the unit instance strings of the compositor units the manager may hold
WmUnits ==
    {simple_systemd_escape(IdSway, FALSE), simple_systemd_escape(IdWm, FALSE)}

NoArgs ==
    [mode |-> "none", d |-> CHOOSE d \in Descriptors : d.wm_id = IdSway,
     use_session_slice |-> FALSE, dry_run |-> FALSE, only_generate |-> FALSE,
     remove_units |-> FALSE, remove_only |-> "", aux_action |-> ""]

StartArgs ==
    {[NoArgs EXCEPT !.mode = "start", !.d = d, !.only_generate = g] :
       d \in Descriptors, g \in BOOLEAN}
    \cup {[NoArgs EXCEPT !.mode = "start", !.d = d, !.dry_run = TRUE] :
            d \in {x \in Descriptors : x.wm_args = <<>> /\ x.in_path}}
    \cup {[NoArgs EXCEPT !.mode = "start", !.use_session_slice = TRUE,
                         !.only_generate = g] : g \in BOOLEAN}

StopArgs ==
    {[NoArgs EXCEPT !.mode = "stop", !.dry_run = dry,
                    !.remove_units = r[1], !.remove_only = r[2]] :
       dry \in BOOLEAN,
       r \in {<<FALSE, "">>, <<TRUE, "">>, <<TRUE, Join(IdSway)>>,
              <<TRUE, Join(IdWm)>>}}

(***************************************************************************)
(* Environments.  A dict of variables is a function from names to values;  *)
(* the shell prints one entry per variable, <<name, value>> for            *)
(* "name=value" and <<text>> for an entry without "=".                     *)
(***************************************************************************)
\* set(d.items())
Items(d) == {<<k, d[k]>> : k \in DOMAIN d}

\* dict(items)
DictOf(items) ==
    [k \in {i[1] : i \in items} |-> (CHOOSE i \in items : i[1] = k)[2]]

\* d.update(e)
Update(d, e) ==
    [k \in DOMAIN d \cup DOMAIN e |-> IF k \in DOMAIN e THEN e[k] ELSE d[k]]

\* d without the keys in names
Pop(d, names) == [k \in DOMAIN d \ names |-> d[k]]

\* the characters of the names of the model; "" is the name of an entry
\* that starts with "="
NameChars(var) ==
    CASE var = "9LIVES" ->
           <<"9", "L", "I", "V", "E", "S">>
      [] var = "DISPLAY" ->
           <<"D", "I", "S", "P", "L", "A", "Y">>
      [] var = "FOO" ->
           <<"F", "O", "O">>
      [] var = "INVOCATION_ID" ->
           <<"I", "N", "V", "O", "C", "A", "T", "I", "O", "N", "_", "I", "D">>
      [] var = "LANG" ->
           <<"L", "A", "N", "G">>
      [] var = "LS_COLORS" ->
           <<"L", "S", "_", "C", "O", "L", "O", "R", "S">>
      [] var = "MY-VAR" ->
           <<"M", "Y", "-", "V", "A", "R">>
      [] var = "PATH" ->
           <<"P", "A", "T", "H">>
      [] var = "PWD" ->
           <<"P", "W", "D">>
      [] var = "SHELL" ->
           <<"S", "H", "E", "L", "L">>
      [] var = "SHLVL" ->
           <<"S", "H", "L", "V", "L">>
      [] var = "SSH_AGENT_LAUNCHER" ->
           <<"S", "S", "H", "_", "A", "G", "E", "N", "T", "_", "L", "A", "U", "N", "C", "H", "E", "R">>
      [] var = "SSH_AGENT_PID" ->
           <<"S", "S", "H", "_", "A", "G", "E", "N", "T", "_", "P", "I", "D">>
      [] var = "SSH_AUTH_SOCK" ->
           <<"S", "S", "H", "_", "A", "U", "T", "H", "_", "S", "O", "C", "K">>
      [] var = "WAYLAND_DISPLAY" ->
           <<"W", "A", "Y", "L", "A", "N", "D", "_", "D", "I", "S", "P", "L", "A", "Y">>
      [] var = "XCURSOR_SIZE" ->
           <<"X", "C", "U", "R", "S", "O", "R", "_", "S", "I", "Z", "E">>
      [] var = "XCURSOR_THEME" ->
           <<"X", "C", "U", "R", "S", "O", "R", "_", "T", "H", "E", "M", "E">>
      [] var = "XDG_CURRENT_DESKTOP" ->
           <<"X", "D", "G", "_", "C", "U", "R", "R", "E", "N", "T", "_", "D", "E", "S", "K", "T", "O", "P">>
      [] var = "XDG_MENU_PREFIX" ->
           <<"X", "D", "G", "_", "M", "E", "N", "U", "_", "P", "R", "E", "F", "I", "X">>
      [] var = "XDG_SESSION_DESKTOP" ->
           <<"X", "D", "G", "_", "S", "E", "S", "S", "I", "O", "N", "_", "D", "E", "S", "K", "T", "O", "P">>
      [] var = "XDG_SESSION_ID" ->
           <<"X", "D", "G", "_", "S", "E", "S", "S", "I", "O", "N", "_", "I", "D">>
      [] var = "XDG_SESSION_TYPE" ->
           <<"X", "D", "G", "_", "S", "E", "S", "S", "I", "O", "N", "_", "T", "Y", "P", "E">>
      [] var = "XDG_VTNR" ->
           <<"X", "D", "G", "_", "V", "T", "N", "R">>
      [] var = "_" ->
           <<"_">>
      [] OTHER -> <<>>

LetterChars ==
    {"a", "b", "c", "d", "e", "f", "g", "h", "i", "j", "k", "l", "m", "n", "o",
     "p", "q", "r", "s", "t", "u", "v", "w", "x", "y", "z",
     "A", "B", "C", "D", "E", "F", "G", "H", "I", "J", "K", "L", "M", "N", "O",
     "P", "Q", "R", "S", "T", "U", "V", "W", "X", "Y", "Z"}

DigitChars == {"0", "1", "2", "3", "4", "5", "6", "7", "8", "9"}

\* Val.sh_varname on the characters of a name:
\* \A([a-zA-Z_][a-zA-Z0-9_]+|[a-zA-Z][a-zA-Z0-9_]*)\Z
sh_varname(chars) ==
    LET rest == \A i \in 2..Len(chars) :
                  chars[i] \in LetterChars \cup DigitChars \cup {"_"}
    IN  /\ chars # <<>>
        /\ \/ chars[1] \in LetterChars \cup {"_"} /\ Len(chars) >= 2 /\ rest
           \/ chars[1] \in LetterChars /\ rest

\* the names of the model that Val.sh_varname matches
ValidNames ==
    {var \in {"", "9LIVES", "DISPLAY", "FOO", "INVOCATION_ID", "LANG",
              "LS_COLORS", "MY-VAR", "PATH", "PWD", "SHELL", "SHLVL",
              "SSH_AGENT_LAUNCHER", "SSH_AGENT_PID", "SSH_AUTH_SOCK",
              "WAYLAND_DISPLAY", "XCURSOR_SIZE", "XCURSOR_THEME",
              "XDG_CURRENT_DESKTOP", "XDG_MENU_PREFIX", "XDG_SESSION_DESKTOP",
              "XDG_SESSION_ID", "XDG_SESSION_TYPE", "XDG_VTNR", "_"} :
       sh_varname(NameChars(var))}

\* a filter that keeps every name
AnyVarname(var) == TRUE

\* "Val.sh_varname.search(var)"
Val_sh_varname(var) == var \in ValidNames

\* filter_varnames() of a dict
filter_varnames(data) == Pop(data, {var \in DOMAIN data : ~Val_sh_varname(var)})

\* the names of the model in the order sorted() gives them
NameOrder ==
    <<"", "9LIVES", "DISPLAY", "FOO", "INVOCATION_ID", "LANG", "LS_COLORS",
      "MY-VAR", "PATH", "PWD", "SHELL", "SHLVL", "SSH_AGENT_LAUNCHER",
      "SSH_AGENT_PID", "SSH_AUTH_SOCK", "WAYLAND_DISPLAY", "XCURSOR_SIZE",
      "XCURSOR_THEME", "XDG_CURRENT_DESKTOP", "XDG_MENU_PREFIX",
      "XDG_SESSION_DESKTOP", "XDG_SESSION_ID", "XDG_SESSION_TYPE",
      "XDG_VTNR", "_">>

\* "\n".join(sorted(names)): the lines of the file
SortedLines(names) == SelectSeq(NameOrder, LAMBDA n : n \in names)

\* {l.strip() for l in open_cleanup_file.readlines() if l.strip()}
ReadNames(lines) == {lines[i] : i \in 1..Len(lines)} \ {""}

\* the parse of the shell output: entries with a value become the dict,
\* the others are reported and dropped
ParseEnv(stdout) == DictOf({e \in stdout : Len(e) = 2})

\* "set_env = dict(set(env_post.items()) - set(env_pre.items()))"
RawDifference(env_pre, env_post) == DictOf(Items(env_post) \ Items(env_pre))

\* an export of the raw difference alone
DifferenceOnly(env_pre, env_post) == RawDifference(env_pre, env_post)

\* the names whose export is forced when the shell left them set
ForcedExport == (always_export \ never_export) \ always_unset

\* the exclusion of the never_export names only
NeverExportOnly == never_export

\* "for var in Varnames.never_export | Varnames.always_unset: set_env.pop(var)"
ForcedExcluded == never_export \cup always_unset

\* set_env of prepare_env(): the raw difference, the forced exports added,
\* the excluded names popped
set_env(env_pre, env_post) ==
    Pop(Update(RawDifference(env_pre, env_post),
               [var \in ForcedExport \cap DOMAIN env_post |-> env_post[var]]),
        ForcedExcluded)

\* the reverse difference and the always_unset names, whatever the manager
\* holds
UnsetUnfiltered(env_pre, env_post, systemd_varnames) ==
    (DOMAIN env_pre \ DOMAIN env_post) \cup always_unset

\* unset_varnames of prepare_env()
unset_varnames(env_pre, env_post, systemd_varnames) ==
    ((DOMAIN env_pre \ DOMAIN env_post) \cup always_unset) \cap systemd_varnames

\* cleanup_varnames of prepare_env(): "-" binds tighter than "|"
cleanup_varnames(set_env_keys) ==
    set_env_keys \cup (always_cleanup \ never_cleanup)

\* a cleanup file that holds the names of the last run only
ManifestOverwrite(current_cleanup_varnames, names) == SortedLines(names)

\* a cleanup file rewritten with the names it held
ManifestStale(current_cleanup_varnames, names) ==
    SortedLines(current_cleanup_varnames)

\* the lines prepare_env() writes to the cleanup file
ManifestLines(current_cleanup_varnames, names) ==
    SortedLines(current_cleanup_varnames \cup names)

\* a cleanup that unsets nothing
CleanupNothing(current_cleanup_varnames, systemd_varnames) == {}

\* cleanup_varnames of cleanup_env(): "-" binds tighter than "&", "&"
\* tighter than "|"
CleanupVarnames(current_cleanup_varnames, systemd_varnames) ==
    current_cleanup_varnames
    \cup ((always_cleanup \ never_cleanup) \cap systemd_varnames)

\* SetEnvironment(assignments) then UnsetEnvironment(names) in the manager
SetEnvironment(env, assignments) == Update(env, assignments)

UnsetEnvironment(env, names) == Pop(env, names)

\* the compositor ids as strings: the keys of the cleanup files
WmIds == {Join(IdSway), Join(IdWm)}

\* a dict without keys
EmptyDict == [k \in {} |-> ""]

\* "XDG_VTNR": str(v_term), "XDG_SESSION_ID": str(session_id)
VtVars == [var \in {"XDG_VTNR", "XDG_SESSION_ID"} |->
             IF var = "XDG_VTNR" THEN "1" ELSE "2"]

\* the environment blocks the manager may hold before the first aux action
InitEnvs ==
    { [var \in {"PATH"} |-> "/usr/bin"],
      [var \in {"PATH", "FOO", "WAYLAND_DISPLAY", "XDG_VTNR", "_"} |->
         CASE var = "PATH" -> "/usr/bin"
           [] var = "FOO" -> "1"
           [] var = "WAYLAND_DISPLAY" -> "wayland-0"
           [] var = "XDG_VTNR" -> "7"
           [] var = "_" -> "/bin/sh"] }

\* what the shell may print after the mark: PATH and FOO unset or with one
\* of two values, together with one of the sets of further entries
ShellOutputs ==
    LET path == {{}, {<<"PATH", "/usr/bin">>}, {<<"PATH", "/opt/bin">>}}
        foo == {{}, {<<"FOO", "1">>}, {<<"FOO", "2">>}}
        more == { {},
                  {<<"WAYLAND_DISPLAY", "wayland-1">>},
                  {<<"SSH_AUTH_SOCK", "/s">>},
                  {<<"PWD", "/">>},
                  {<<"XDG_VTNR", "1">>, <<"XDG_SESSION_ID", "2">>},
                  {<<"WAYLAND_DISPLAY", "wayland-1">>, <<"SSH_AUTH_SOCK", "/s">>,
                   <<"PWD", "/">>, <<"XDG_VTNR", "1">>},
                  {<<"_", "/usr/bin/env">>, <<"garbage">>, <<"9LIVES", "x">>,
                   <<"MY-VAR", "y">>, <<"", "z">>} }
    IN  {p \cup f \cup m : p \in path, f \in foo, m \in more}

\* the descriptor of a plain command line with the given id
Plain(id) ==
    CHOOSE d \in Descriptors :
      /\ d.wm_id = id /\ d.wm_args = <<>> /\ d.desktop_names = <<>>
      /\ d.wm_name = "" /\ d.wm_comment = "" /\ d.in_path

\* "uwsm aux prepare-env ID" and "uwsm aux cleanup-env", the ExecStart and
\* ExecStop of wayland-wm-env@.service
AuxArgs ==
    {[NoArgs EXCEPT !.mode = "aux", !.aux_action = "prepare-env", !.d = d] :
       d \in {Plain(IdSway), Plain(IdWm), Plain(IdBad)}}
    \cup {[NoArgs EXCEPT !.mode = "aux", !.aux_action = "cleanup-env"]}

\* the invocations of the lifecycle with signals
LifeArgs ==
    { [NoArgs EXCEPT !.mode = "start", !.d = Plain(IdSway)],
      [NoArgs EXCEPT !.mode = "stop"],
      [NoArgs EXCEPT !.mode = "stop", !.remove_units = TRUE],
      [NoArgs EXCEPT !.mode = "aux", !.aux_action = "cleanup-env"] }

(***************************************************************************)
(* uwsm app: the argv of a desktop entry.  A word of an argv is a record:  *)
(* text is its characters (a field code, an option or a name counts as one *)
(* character), scheme what urlparse finds before its first ":".  An entry  *)
(* is a record: Exec (the words of its Exec line), Name, Icon, Actions (a  *)
(* function from action ids to records with Name, Exec and Icon) and       *)
(* defaultGroup.                                                           *)
(***************************************************************************)
W(s) == [scheme |-> "", text |-> <<s>>]

\* urlparse.quote() of one character: a space is percent-encoded, the
\* letters, digits and "/" of the model are not
quote(c) == IF c = " " THEN "%20" ELSE c

\* "file:" followed by the quoted path
FileUrl(word) ==
    [scheme |-> "file", text |-> [i \in 1..Len(word.text) |-> quote(word.text[i])]]

\* "if urlparse.urlparse(arg).scheme: return arg" else the file URL
path2url(word) == IF word.scheme # "" THEN word ELSE FileUrl(word)

\* list.insert(i, x) with Python's index rules: a negative index counts
\* from the end, an index out of range is clamped
PyInsert(list, i, x) ==
    LET n == Len(list)
        k == IF i < 0 THEN (IF n + i < 0 THEN 0 ELSE n + i)
             ELSE (IF i > n THEN n ELSE i)
    IN  SubSeq(list, 1, k) \o <<x>> \o SubSeq(list, k + 1, n)

\* list.pop(i)
PyPop(list, i) ==
    LET k == IF i < 0 THEN Len(list) + i ELSE i
    IN  SubSeq(list, 1, k) \o SubSeq(list, k + 2, Len(list))

\* list[i] = x
PySet(list, i, x) ==
    LET k == IF i < 0 THEN Len(list) + i ELSE i
    IN  [list EXCEPT ![k + 1] = x]

\* list.index(x): the first position of x, counted from 0
PyIndex(list, x) ==
    CHOOSE k \in 0..(Len(list) - 1) :
        /\ list[k + 1] = x
        /\ \A j \in 0..(k - 1) : list[j + 1] # x

\* entry_action_keys(): Name, Exec and Icon of the entry or of its action;
\* raised when the entry has no such action.  group is entry.defaultGroup
\* when the function is left.
entry_action_keys(entry, entry_action) ==
    LET out == [Name |-> entry.Name, Exec |-> entry.Exec, Icon |-> entry.Icon]
    IN  IF entry_action = ""
        THEN [raised |-> FALSE, out |-> out, group |-> entry.defaultGroup]
        ELSE IF entry_action \notin DOMAIN entry.Actions
        THEN [raised |-> TRUE, out |-> out, group |-> entry.defaultGroup]
        ELSE LET action == entry.Actions[entry_action]
             IN  [raised |-> FALSE,
                  out |-> [Name |-> action.Name, Exec |-> action.Exec,
                           Icon |-> IF action.Icon # "" THEN action.Icon
                                    ELSE entry.Icon],
                  group |-> "Desktop Entry"]

\* "for arg in args: entry_args.insert(idx + expand, arg); expand += 1",
\* with the arguments of %U made URLs
RECURSIVE InsertArgs(_, _, _, _)
InsertArgs(st, idx, arguments, url) ==
    IF arguments = <<>> THEN st
    ELSE LET arg == IF url THEN path2url(Head(arguments)) ELSE Head(arguments)
         IN  InsertArgs([st EXCEPT
                            !.entry_args = PyInsert(@, idx + st.expand, arg),
                            !.expand = @ + 1],
                        idx, Tail(arguments), url)

\* a scan that records the field and goes on
NoConflict(encountered_fu) == FALSE

\* "if encountered_fu: raise RuntimeError(...)"
Conflict(encountered_fu) == encountered_fu # ""

\* one pass of the loop over entry_args.copy(): entry_arg is the element of
\* the copy at idx
ParseArg(st, idx, entry_arg, arguments, entry, entry_dict) ==
    IF st.raised THEN st
    ELSE IF entry_arg \in {W("%f"), W("%u")}
    THEN IF Conflict(st.encountered_fu) THEN [st EXCEPT !.raised = TRUE]
         ELSE LET st1 == [st EXCEPT !.encountered_fu = entry_arg.text[1]]
              IN  IF Len(arguments) <= 1
                  THEN LET st2 == [st1 EXCEPT
                                      !.entry_args = PyPop(@, idx + st.expand),
                                      !.expand = @ - 1]
                       IN  InsertArgs(st2, idx, arguments, entry_arg = W("%u"))
                  ELSE st1
    ELSE IF entry_arg \in {W("%F"), W("%U")}
    THEN IF Conflict(st.encountered_fu) THEN [st EXCEPT !.raised = TRUE]
         ELSE InsertArgs([st EXCEPT !.encountered_fu = entry_arg.text[1],
                                    !.entry_args = PyPop(@, idx + st.expand),
                                    !.expand = @ - 1],
                         idx, arguments, entry_arg = W("%U"))
    ELSE IF entry_arg = W("%c")
    THEN [st EXCEPT !.entry_args = PySet(@, idx + st.expand, W(entry.Name))]
    ELSE IF entry_arg = W("%k")
    THEN [st EXCEPT !.entry_args = PySet(@, idx + st.expand, W(entry.FileName))]
    ELSE IF entry_arg = W("%i")
    THEN IF entry_dict.Icon # ""
         THEN [st EXCEPT
                  !.entry_args =
                      PyInsert(PySet(@, idx + st.expand, W("--icon")),
                               idx + st.expand + 1, W(entry_dict.Icon)),
                  !.expand = @ + 1]
         ELSE [st EXCEPT !.entry_args = PyPop(@, idx + st.expand),
                         !.expand = @ - 1]
    ELSE st

RECURSIVE ParseArgs(_, _, _, _, _, _)
ParseArgs(st, idx, copy, arguments, entry, entry_dict) ==
    IF idx >= Len(copy) THEN st
    ELSE ParseArgs(ParseArg(st, idx, copy[idx + 1], arguments, entry, entry_dict),
                   idx + 1, copy, arguments, entry, entry_dict)

\* the replacement of the field in each instance of an iterative launch
RECURSIVE Iterate(_, _, _, _)
Iterate(entry_args, field_index, arguments, url) ==
    IF arguments = <<>> THEN <<>>
    ELSE LET arg == IF url THEN path2url(Head(arguments)) ELSE Head(arguments)
         IN  <<PySet(entry_args, field_index, arg)>>
             \o Iterate(entry_args, field_index, Tail(arguments), url)

\* nothing was rendered
NoArgv ==
    [raised |-> TRUE, iterated |-> FALSE, cmd |-> W(""), args |-> <<>>,
     instances |-> <<>>, group |-> "Desktop Entry"]

\* gen_entry_args(): raised, or (cmd, args), or for an iterative launch
\* (cmd, instances) with one list of arguments per instance; group is
\* entry.defaultGroup when the function is left
gen_entry_args(entry, arguments, entry_action) ==
    LET keys == entry_action_keys(entry, entry_action)
    IN  IF keys.raised THEN [NoArgv EXCEPT !.group = keys.group]
        ELSE
        LET entry_argv == keys.out.Exec
            entry_cmd == Head(entry_argv)
            st == ParseArgs([entry_args |-> Tail(entry_argv), expand |-> 0,
                             encountered_fu |-> "", raised |-> FALSE],
                            0, Tail(entry_argv), arguments, entry, keys.out)
        IN  IF st.raised \/ (arguments # <<>> /\ st.encountered_fu = "")
            THEN [NoArgv EXCEPT !.group = keys.group]
            ELSE IF Len(arguments) > 1 /\ st.encountered_fu \in {"%f", "%u"}
            THEN [raised |-> FALSE, iterated |-> TRUE, cmd |-> entry_cmd,
                  args |-> <<>>,
                  instances |->
                      Iterate(st.entry_args,
                              PyIndex(st.entry_args, W(st.encountered_fu)),
                              arguments, st.encountered_fu = "%u"),
                  group |-> keys.group]
            ELSE [raised |-> FALSE, iterated |-> FALSE, cmd |-> entry_cmd,
                  args |-> st.entry_args, instances |-> <<>>,
                  group |-> keys.group]

(***************************************************************************)
(* uwsm app: the unit name.  The strings are sequences of characters.      *)
(***************************************************************************)
\* char2cesc() of the characters the model escapes, as characters
CescChars(c) ==
    IF c = "-" THEN <<"\\", "x", "2", "d">> ELSE <<"\\", "x", "2", "1">>

\* a string of the model is a sequence of runs: n times the character ch
Rep(ch, n) == [i \in 1..n |-> ch]

\* simple_systemd_escape(string, start=False), as characters, run by run
RECURSIVE EscapeSeq(_)
EscapeSeq(runs) ==
    IF runs = <<>> THEN <<>>
    ELSE LET ch == Head(runs).ch
             n == Head(runs).n
             ucp == Ord(ch)
             out == IF ch = "/" THEN Rep("-", n)
                    ELSE IF \/ ucp \in {46, 95}
                            \/ (48 <= ucp /\ ucp <= 58)
                            \/ (65 <= ucp /\ ucp <= 90)
                            \/ (97 <= ucp /\ ucp <= 122)
                         THEN Rep(ch, n)
                         ELSE [i \in 1..(4 * n) |->
                                 CescChars(ch)[((i - 1) % 4) + 1]]
         IN  out \o EscapeSeq(Tail(runs))

\* where the pattern \\x.. matches in the string
Matches(chars) ==
    {i \in 1..(Len(chars) - 3) : chars[i] = "\\" /\ chars[i + 1] = "x"}

\* re.split(r"(\\x..)", string): the text between the matches and the
\* matches, alternating
RECURSIVE SplitEscapes(_)
SplitEscapes(chars) ==
    IF Matches(chars) = {} THEN <<chars>>
    ELSE LET i == CHOOSE m \in Matches(chars) :
                      \A o \in Matches(chars) : m <= o
         IN  <<SubSeq(chars, 1, i - 1), SubSeq(chars, i, i + 3)>>
             \o SplitEscapes(SubSeq(chars, i + 4, Len(chars)))

\* fragment[0:stop]
SliceTo(fragment, stop) ==
    LET n == Len(fragment)
        k == IF stop < 0 THEN (IF n + stop < 0 THEN 0 ELSE n + stop)
             ELSE (IF stop > n THEN n ELSE stop)
    IN  SubSeq(fragment, 1, k)

\* a cut at the limit whatever the fragment is
CutAnywhere(fragment) == FALSE

\* 'if fragment.startswith(r"\x"): break'
IsEscape(fragment) ==
    Len(fragment) >= 2 /\ fragment[1] = "\\" /\ fragment[2] = "x"

\* the loop that shortens a substring: whole fragments while they fit below
\* the limit, then the start of a text fragment or nothing of an escape
RECURSIVE CutFragments(_, _, _)
CutFragments(fragments, l_check, limit) ==
    IF fragments = <<>> THEN <<>>
    ELSE LET fragment == Head(fragments)
         IN  IF Len(fragment) + l_check < limit
             THEN fragment \o CutFragments(Tail(fragments),
                                           l_check + Len(fragment), limit)
             ELSE IF IsEscape(fragment) THEN <<>>
             ELSE SliceTo(fragment, limit - l_check)

\* the characters of app_unit_type
TypeChars(app_unit_type) ==
    IF app_unit_type = "scope" THEN <<"s", "c", "o", "p", "e">>
    ELSE <<"s", "e", "r", "v", "i", "c", "e">>

\* len("app---DEADBEEF.") + len(app_unit_type)
StaticLen(app_unit_type) == 15 + Len(TypeChars(app_unit_type))

\* the desktop and command substrings of the unit name app() makes up when
\* no unit name is given
UnitSubstrings(desktop, name, app_unit_type) ==
    LET l_static == StaticLen(app_unit_type)
        desktop0 == EscapeSeq(desktop)
        cmd0 == EscapeSeq(name)
        desktop1 == IF l_static + Len(desktop0) > 127
                    THEN CutFragments(SplitEscapes(desktop0), l_static, 127)
                    ELSE desktop0
        cmd1 == IF l_static + Len(desktop1) + Len(cmd0) > 255
                THEN CutFragments(SplitEscapes(cmd0),
                                  l_static + Len(desktop1), 255)
                ELSE cmd0
    IN  [desktop |-> desktop1, cmd |-> cmd1]

\* "app-{desktop}-{cmd}-{random_hex(8)}.scope" or
\* "app-{desktop}-{cmd}@{random_hex(8)}.service", as characters; the eight
\* random digits are written as "0"
UnitName(desktop, name, app_unit_type) ==
    LET sub == UnitSubstrings(desktop, name, app_unit_type)
        hex == [i \in 1..8 |-> "0"]
    IN  <<"a", "p", "p", "-">> \o sub.desktop \o <<"-">> \o sub.cmd
        \o <<IF app_unit_type = "scope" THEN "-" ELSE "@">> \o hex
        \o <<".">> \o TypeChars(app_unit_type)

(***************************************************************************)
(* uwsm app: the inputs of the model.                                      *)
(***************************************************************************)
Words(strs) == [i \in 1..Len(strs) |-> W(strs[i])]

AppEntry(template, name, icon) ==
    [Exec |-> Words(<<"app">> \o template), Name |-> name, Icon |-> icon,
     FileName |-> "/usr/share/applications/app.desktop",
     Actions |-> [a \in {"new"} |->
                    [Name |-> "New", Exec |-> Words(<<"app", "--new", "%u">>),
                     Icon |-> ""]],
     defaultGroup |-> "Desktop Entry"]

AppEntries ==
    { AppEntry(<<>>, "App", ""),
      AppEntry(<<"--open", "%f">>, "App", ""),
      AppEntry(<<"%u">>, "App", ""),
      AppEntry(<<"%i", "--open", "%u", "--end">>, "App", "ic"),
      AppEntry(<<"%i", "%c", "%f">>, "App", ""),
      AppEntry(<<"%F", "z">>, "App", ""),
      AppEntry(<<"--open", "%U">>, "App", ""),
      AppEntry(<<"%f", "%F">>, "App", ""),
      AppEntry(<<"%u", "--and", "%u">>, "App", ""),
      AppEntry(<<"%k", "%U", "%i", "%f">>, "App", "ic"),
      AppEntry(<<"--x=%f", "%F">>, "App", ""),
      AppEntry(<<"%c", "%f">>, "%f", "") }

\* the caller's arguments: paths, a path with a space, a URL
ArgA == [scheme |-> "", text |-> <<"a">>]
ArgB == [scheme |-> "", text |-> <<"b", " ", "c">>]
ArgUrl == [scheme |-> "http", text |-> <<"//", "x">>]

AppArgLists ==
    {<<>>, <<ArgA>>, <<ArgA, ArgB>>, <<ArgUrl, ArgA>>, <<ArgB, ArgUrl, ArgA>>}

Run(ch, n) == <<[ch |-> ch, n |-> n]>>

\* values of XDG_CURRENT_DESKTOP's first name
AppDesktops ==
    { Run("s", 4),
      Run("a", 100) \o Run("-", 3),
      Run("a", 104) \o Run("!", 1) \o Run("a", 1) \o Run("-", 2),
      Run("-", 30),
      Run("a", 300) }

\* app names, or the names of commands
AppNames ==
    { Run("a", 7),
      Run("a", 120) \o Run("/", 3) \o Run("!", 3),
      Run("a", 224) \o Run("!", 2),
      Run("-", 35) \o Run("a", 150),
      Run("a", 300) }

\* the arguments of an app invocation: cmdline is an entry id with an
\* optional action, or a command, followed by the arguments; app_name is
\* empty when -a is not given
NoInput ==
    [is_entry |-> FALSE, entry |-> AppEntry(<<>>, "", ""), entry_action |-> "",
     arguments |-> <<>>, base |-> <<>>, app_name |-> <<>>,
     desktop |-> <<>>, app_unit_type |-> "scope", in_path |-> TRUE]

AppInputs ==
    LET plain == [NoInput EXCEPT !.is_entry = TRUE, !.base = Run("a", 3),
                                 !.desktop = Run("s", 4)]
    IN  {[plain EXCEPT !.entry = e, !.arguments = a] :
            e \in AppEntries, a \in AppArgLists}
        \cup {[plain EXCEPT !.entry = AppEntry(<<"--open", "%f">>, "App", ""),
                            !.entry_action = "new", !.arguments = a] :
                a \in AppArgLists}
        \cup {[plain EXCEPT !.entry = AppEntry(<<"--open", "%f">>, "App", ""),
                            !.arguments = a, !.desktop = d, !.app_name = n,
                            !.app_unit_type = t] :
                a \in {<<ArgA>>, <<ArgA, ArgB>>}, d \in AppDesktops,
                n \in AppNames, t \in {"scope", "service"}}
        \cup {[plain EXCEPT !.is_entry = FALSE, !.arguments = a, !.base = n,
                            !.in_path = p] :
                a \in {<<>>, <<ArgA, ArgB>>}, n \in AppNames, p \in BOOLEAN}
        \cup {[plain EXCEPT !.entry = AppEntry(<<"--open", "%f">>, "App", ""),
                            !.arguments = <<ArgA, ArgB>>, !.in_path = FALSE]}

\* no app() has run; of one that has: what gen_entry_args returned, the
\* systemd-run processes it started with their command lines and unit
\* names, the list of polled return codes and the position of the poll
\* loop, and for a single launch the command line and unit name it execs
NoLaunch ==
    [inp |-> NoInput, gen |-> NoArgv, sub_apps |-> <<>>, sub_apps_rc |-> <<>>,
     idx |-> 0, single |-> [cmdline |-> <<>>, unit_name |-> <<>>]]

(***************************************************************************)
(* State.                                                                  *)
(***************************************************************************)
VARIABLES
    \* the invocation of main(): "idle", "running" or "exited", its exit
    \* status, its parsed arguments and its globals
    run, exit_status, args, wm, units_changed, stopper_initiated,
    \* whether the INT/TERM/HUP handlers are installed
    handlers,
    \* the call stack: main() at the bottom, trap_stopper frames above it;
    \* only the top frame runs
    stack,
    \* the runtime unit root
    files, dirs,
    \* the service manager: pending jobs, the state of each compositor unit
    jobs, unit_state,
    \* the environment block of the service manager
    mgr_env,
    \* the cleanup manifests in the runtime directory, by compositor id
    manifests,
    \* the locals of a running prepare_env()
    prep,
    \* observations of the current invocation, read by the properties only
    obs,
    \* observations that outlive an invocation: the cleanup sets of the
    \* prepare_env runs since the manifests were last removed
    hist,
    \* the locals of app() and the systemd-run processes it started
    launch,
    \* the invocations that run as processes of their own beside main():
    \* uwsm finalize called by the compositor, a second uwsm start
    procs

procVars == <<run, exit_status, args, wm, units_changed, stopper_initiated,
              handlers, stack>>
fsVars == <<files, dirs>>
mgrVars == <<jobs, unit_state>>
envVars == <<mgr_env, manifests, prep, hist>>
appVars == <<launch, procs>>
vars == <<procVars, fsVars, mgrVars, envVars, obs, appVars>>

\* the processes that may run beside main()
Pids == {1, 2}

\* no process; of a running or finished one: what it runs, where it is, its
\* environment and arguments, its locals, whether it has exited and with
\* which status, and what it has done so far
NoProc ==
    [mode |-> "none", pc |-> "", environ |-> [k \in {} |-> ""],
     env_names |-> <<>>, export_vars |-> [k \in {} |-> ""], wm_id |-> "",
     activating_wm_id |-> "", current_cleanup_varnames |-> {},
     exited |-> FALSE, rc |-> 0, notified |-> FALSE, exported |-> FALSE,
     wrote |-> FALSE, no_file |-> FALSE, export_failed |-> FALSE,
     saw_active |-> FALSE, unit |-> "", requested |-> FALSE,
     id |-> <<>>, instance |-> <<>>, checked |-> FALSE]

NoProcs == [p \in Pids |-> NoProc]

\* the environment and the arguments of a uwsm finalize: WAYLAND_DISPLAY
\* unset, empty or set, with DISPLAY and a variable named as argument
FinInputs ==
    LET Env(names) ==
            [var \in names |->
               CASE var = "WAYLAND_DISPLAY" -> "wayland-1"
                 [] var = "DISPLAY" -> ":0"
                 [] var = "FOO" -> "3"
                 [] var = "LANG" -> "C"
                 [] var = "SSH_AUTH_SOCK" -> "/s"]
    IN  { [environ |-> [k \in {} |-> ""], env_names |-> <<>>],
          [environ |-> [var \in {"WAYLAND_DISPLAY"} |-> ""],
           env_names |-> <<>>],
          [environ |-> Env({"WAYLAND_DISPLAY"}), env_names |-> <<>>],
          [environ |-> Env({"WAYLAND_DISPLAY", "DISPLAY", "FOO"}),
           env_names |-> <<"FOO">>],
          [environ |-> Env({"WAYLAND_DISPLAY", "LANG"}),
           env_names |-> <<"LANG", "FOO">>],
          [environ |-> Env({"WAYLAND_DISPLAY", "SSH_AUTH_SOCK"}),
           env_names |-> <<"SSH_AUTH_SOCK">>] }

\* no call of update_unit, remove_unit or remove_units was observed; of an
\* observed one: its arguments, args.dry_run, what it returned and whether
\* it raised
NoCall ==
    [op |-> "", unit |-> <<>>, data |-> NoData, only |-> "", dry |-> FALSE,
     ret |-> FALSE, raised |-> FALSE]

NoObs ==
    [reloads |-> 0, wrote |-> FALSE, anyret |-> FALSE, generated |-> FALSE,
     gen_changed |-> FALSE,
     repeat |-> FALSE, root_empty |-> FALSE, signals |-> 0, stops |-> 0,
     stop_requests |-> 0, guard_returns |-> 0, cleanups |-> 0,
     warned |-> FALSE, start_requests |-> 0, cleaned |-> FALSE,
     cleanup_due |-> {}, after_prepare |-> FALSE, cleanup_sent |-> {},
     cleanup_unsets |-> 0, dropped |-> FALSE, call |-> NoCall,
     found_active |-> FALSE, returned |-> FALSE, sprc |-> 0,
     stop_raised |-> FALSE, exit_from |-> "", prepares |-> 0,
     prep_error |-> "", slept |-> 0, listed |-> FALSE, units |-> <<>>,
     stop_units |-> <<>>, stop_returned |-> FALSE, stop_result |-> FALSE,
     shell |-> [ran |-> FALSE, marked |-> FALSE, returncode |-> 0],
     cleanup_files |-> {}, cleanup_error |-> ""]

\* no prepare_env() is running; of a running one: systemd_vars is what
\* get_systemd_vars() returned, sent_set and sent_unset the arguments of the
\* SetEnvironment and UnsetEnvironment requests once they are made
NoPrep ==
    [live |-> FALSE, systemd_vars |-> EmptyDict, env_pre |-> EmptyDict,
     systemd_varnames |-> {}, env_post |-> EmptyDict, set_env |-> EmptyDict,
     stdout |-> {}, unset_varnames |-> {}, cleanup_varnames |-> {},
     exported |-> FALSE,
     sent_set |-> EmptyDict, sent_unset |-> {}]

\* no prepare_env() has written a cleanup file since the last cleanup
NoHist ==
    [acc |-> [id \in WmIds |-> {}], runs |-> [id \in WmIds |-> 0],
     succeeded |-> FALSE, held |-> {}]

\* no cleanup file
NoManifests == [id \in {} |-> <<>>]

Frame(fn, pc, has_rc, systemctl_rc) ==
    [fn |-> fn, pc |-> pc, has_rc |-> has_rc, systemctl_rc |-> systemctl_rc,
     stop_rc |-> 0, job |-> 0]

Top == stack[Len(stack)]

At(fn, pc) == run = "running" /\ stack # <<>> /\ Top.fn = fn /\ Top.pc = pc

Goto(pc) == [stack EXCEPT ![Len(stack)].pc = pc]

\* sys.exit(code): the process ends whatever frames are on the stack
Exit(code) ==
    /\ run' = "exited"
    /\ exit_status' = code
    /\ stack' = <<>>
    /\ handlers' = FALSE

\* the handles ListJobs() returns
JobIds == {j.id : j \in jobs}

\* a wait that ends at its first poll
PollOnce(job) == TRUE

\* a handler that returns whether or not a stop was initiated
GuardAlways(initiated) == TRUE

\* "if job not in [check_job[4] for check_job in jobs]: break"
JobGone(job) == job \notin JobIds

\* the manager can hand out a job handle
JobFree == \E j \in 1..MaxJobs : j \notin JobIds

\* the smallest job handle not pending
NewJob ==
    CHOOSE j \in 1..MaxJobs : j \notin JobIds /\ \A k \in 1..(j - 1) : k \in JobIds

\* a query that sees no compositor unit
UnitsUnseen(session_targets) == session_targets

\* is_active(): a compositor unit or a graphical-session* target is active
\* or activating; the targets belong to whatever session runs beside this
\* program, so their state is an input of each query
is_active(session_targets) ==
    session_targets \/ \E u \in WmUnits : unit_state[u] \in {"active", "activating"}

Init ==
    /\ run = "idle"
    /\ exit_status = 0
    /\ args = NoArgs
    /\ wm = NoWm
    /\ units_changed = FALSE
    /\ stopper_initiated = FALSE
    /\ handlers = FALSE
    /\ stack = <<>>
    /\ files = <<>>
    /\ dirs = {}
    /\ jobs = {}
    /\ unit_state = [u \in WmUnits |-> "inactive"]
    /\ mgr_env = [var \in {"PATH"} |-> "/usr/bin"]
    /\ manifests = NoManifests
    /\ prep = NoPrep
    /\ hist = NoHist
    /\ obs = NoObs
    /\ launch = NoLaunch
    /\ procs = NoProcs

(***************************************************************************)
(* main(): a new invocation resets the globals and parses the arguments.   *)
(***************************************************************************)
\* whether this invocation repeats the previous one: a start with the same
\* descriptor and slice, both with dry-run off, the previous one having run
\* generate_units (every descriptor has an empty XDG_CURRENT_DESKTOP, so
\* equal command lines give equal globals)
Repeats(a) ==
    /\ obs.generated /\ ~args.dry_run
    /\ a.mode = "start" /\ ~a.dry_run
    /\ a.d = args.d /\ a.use_session_slice = args.use_session_slice

\* where main() branches to on args.mode
FirstPc(a) ==
    CASE a.mode = "start" -> "fill"
      [] a.mode = "stop" -> "stop_wm"
      [] a.mode = "aux" -> "aux"

BeginMain(a) ==
    /\ run \in {"idle", "exited"}
    /\ run' = "running"
    /\ exit_status' = 0
    /\ args' = a
    /\ wm' = NoWm
    /\ units_changed' = FALSE
    /\ stopper_initiated' = FALSE
    /\ handlers' = FALSE
    /\ stack' = <<Frame("main", FirstPc(a), FALSE, 0)>>
    /\ obs' = [NoObs EXCEPT !.repeat = Repeats(a)]

Begin(a) ==
    /\ BeginMain(a)
    /\ UNCHANGED <<launch, procs, envVars, fsVars, mgrVars>>

InvokeStart == \E a \in StartArgs : Begin(a)

InvokeStop == \E a \in StopArgs : Begin(a)

\* fill_wm_globals(): exits 1 on a malformed id or a missing executable
FillGlobals ==
    /\ At("main", "fill")
    /\ IF ~Val_wm_id(args.d.wm_id) \/ ~args.d.in_path
       THEN Exit(1) /\ UNCHANGED wm
       ELSE /\ \E session_targets \in BOOLEAN :
                 wm' = FillWmGlobals(args.d, is_active(session_targets))
            /\ stack' = Goto(IF args.mode = "start" THEN "check_active"
                             ELSE "prepare_env")
            /\ UNCHANGED <<run, exit_status, handlers>>
    /\ UNCHANGED <<launch, procs, envVars, args, units_changed, stopper_initiated, fsVars, mgrVars, obs>>

\* a start that goes on whatever is active
ActiveIgnored(active, dry_run) == FALSE

\* "if is_active(verbose_active=True): ... if not args.dry_run: sys.exit(1)"
ActiveBlocks(active, dry_run) == active /\ ~dry_run

CheckActive ==
    /\ At("main", "check_active")
    /\ \E session_targets \in BOOLEAN :
         /\ obs' = [obs EXCEPT !.found_active = is_active(session_targets)]
         /\ IF ActiveBlocks(is_active(session_targets), args.dry_run)
            THEN Exit(1)
            ELSE /\ stack' = Goto("generate")
                 /\ UNCHANGED <<run, exit_status, handlers>>
    /\ UNCHANGED <<launch, procs, envVars, args, wm, units_changed, stopper_initiated, fsVars, mgrVars>>

\* a reload whatever the flag says
ReloadAlways(changed) == TRUE

\* "if units_changed: reload_systemd() else: print_normal('Units unchanged.')"
ReloadNeeded(changed) == changed

\* generate_units(), then "if units_changed: reload_systemd()"
Generate ==
    /\ At("main", "generate")
    /\ LET st == GenerateUnits(files, dirs, wm, args.use_session_slice,
                               args.dry_run)
       IN  /\ files' = st.files
           /\ dirs' = st.dirs
           /\ units_changed' = st.changed
           /\ obs' = [obs EXCEPT !.wrote = st.wrote, !.anyret = st.anyret,
                                 !.generated = TRUE,
                                 !.gen_changed = st.changed,
                                 !.root_empty = (DOMAIN files = {}),
                                 !.dropped =
                                     \E u \in {wm_specific_preloader(wm),
                                                wm_specific_service(wm)} :
                                        u \in DOMAIN files
                                        /\ u \notin DOMAIN st.files]
           /\ stack' = Goto(IF ReloadNeeded(st.changed)
                            THEN "reload" ELSE "after_reload")
    /\ UNCHANGED <<launch, procs, envVars, run, exit_status, args, wm, stopper_initiated, handlers,
                   mgrVars>>

\* where main() goes on after reload_systemd() or after stop_wm()
AfterReloadPc == IF args.mode = "start" THEN "after_reload" ELSE "exit_stop"

\* a stop sequence that goes on to cleanup_env() after stop_wm()
AfterStopCleanupPc(frame) == "cleanup_env"

\* what follows stop_wm(): in main() the unit removal of the stop command, in
\* trap_stopper() the exit
AfterStopPc(frame) == IF frame.fn = "main" THEN "remove_units" ELSE "ts_exit"

\* a handler without its one-shot guard
NoGuard(initiated) == FALSE

\* "if stopper_initiated: return"
StopperGuard(initiated) == initiated

\* reload_systemd(): in a dry run only the flag is reset; otherwise the
\* Reload() request returns a job handle
Reload ==
    /\ At("main", "reload")
    /\ IF args.dry_run
       THEN /\ units_changed' = FALSE
            /\ stack' = Goto(AfterReloadPc)
            /\ UNCHANGED <<jobs, obs>>
       ELSE /\ JobFree
            /\ jobs' = jobs \cup {[id |-> NewJob, kind |-> "reload", unit |-> ""]}
            /\ stack' = [stack EXCEPT ![Len(stack)].pc = "reload_wait",
                                      ![Len(stack)].job = NewJob]
            /\ obs' = [obs EXCEPT !.reloads = @ + 1]
            /\ UNCHANGED units_changed
    /\ UNCHANGED <<launch, procs, envVars, run, exit_status, args, wm, stopper_initiated, handlers,
                   fsVars, unit_state>>

\* the poll of reload_systemd() that finds the job gone from ListJobs()
ReloadWait ==
    /\ At("main", "reload_wait")
    /\ JobGone(Top.job)
    /\ units_changed' = FALSE
    /\ stack' = Goto(AfterReloadPc)
    /\ UNCHANGED <<launch, procs, envVars, run, exit_status, args, wm, stopper_initiated, handlers,
                   fsVars, mgrVars, obs>>

\* "if args.only_generate: sys.exit(0)"
AfterReload ==
    /\ At("main", "after_reload")
    /\ IF args.only_generate
       THEN Exit(0)
       ELSE stack' = Goto("graphical") /\ UNCHANGED <<run, exit_status, handlers>>
    /\ UNCHANGED <<launch, procs, envVars, args, wm, units_changed, stopper_initiated, fsVars, mgrVars,
                   obs>>

\* "time.sleep(5)"
GraceDelay == 5

\* a start that gives up when graphical.target is not reached
GraphicalRequired(units_found) == ~units_found

\* "if len(units) < 1: print_warning(...) time.sleep(5)": nothing in the
\* block leaves main()
GraphicalAborts(units_found) == FALSE

\* the soft check of graphical.target, then "if args.dry_run: sys.exit(0)"
GraphicalCheck ==
    /\ At("main", "graphical")
    /\ \E graphical_target \in BOOLEAN :
         /\ obs' = [obs EXCEPT !.warned = ~graphical_target,
                               !.slept = IF graphical_target THEN 0
                                         ELSE GraceDelay]
         /\ IF GraphicalAborts(graphical_target) \/ args.dry_run
            THEN Exit(IF GraphicalAborts(graphical_target) THEN 1 ELSE 0)
            ELSE /\ stack' = Goto("install")
                 /\ UNCHANGED <<run, exit_status, handlers>>
    /\ UNCHANGED <<launch, procs, envVars, args, wm, units_changed, stopper_initiated, fsVars, mgrVars>>

\* signal.signal(SIGINT|SIGTERM|SIGHUP, trap_stopper)
InstallHandlers ==
    /\ At("main", "install")
    /\ handlers' = TRUE
    /\ stack' = Goto("start")
    /\ UNCHANGED <<launch, procs, envVars, run, exit_status, args, wm, units_changed, stopper_initiated,
                   fsVars, mgrVars, obs>>

\* subprocess.run(["systemctl", "--user", "start", "--wait", ...]) issues the
\* start request and blocks
StartRequest ==
    /\ At("main", "start")
    /\ unit_state' = [unit_state EXCEPT ![wm.wm_id_unit_string] =
                          IF @ = "inactive" THEN "activating" ELSE @]
    /\ obs' = [obs EXCEPT !.start_requests = @ + 1]
    /\ stack' = Goto("waiting")
    /\ UNCHANGED <<launch, procs, envVars, run, exit_status, args, wm, units_changed, stopper_initiated,
                   handlers, fsVars, jobs>>

\* systemctl ends: 0 or 1 once the unit is inactive again, -15 when it is
\* terminated; main() calls trap_stopper(systemctl_rc=sprc.returncode)
SystemctlReturns ==
    /\ At("main", "waiting")
    /\ \E code \in {0, 1, -15} :
         /\ code \in {0, 1} => unit_state[wm.wm_id_unit_string] = "inactive"
         /\ stack' = Append(Goto("returned"),
                            Frame("trap_stopper", "check", TRUE, code))
         /\ obs' = [obs EXCEPT !.returned = TRUE, !.sprc = code]
    /\ UNCHANGED <<launch, procs, envVars, run, exit_status, args, wm, units_changed, stopper_initiated,
                   handlers, fsVars, mgrVars>>

\* an INT, TERM or HUP signal: the handler runs on top of whatever runs now
Signal ==
    /\ run = "running" /\ handlers
    /\ obs.signals < MaxSignals
    /\ stack' = Append(stack, Frame("trap_stopper", "check", FALSE, 0))
    /\ obs' = [obs EXCEPT !.signals = @ + 1]
    /\ UNCHANGED <<launch, procs, envVars, run, exit_status, args, wm, units_changed, stopper_initiated,
                   handlers, fsVars, mgrVars>>

(***************************************************************************)
(* trap_stopper(): the signal handler, also called by main() when          *)
(* systemctl returns.  The test of stopper_initiated and its assignment    *)
(* are two steps: a signal may be handled between them.                    *)
(***************************************************************************)
TsCheck ==
    /\ At("trap_stopper", "check")
    /\ IF StopperGuard(stopper_initiated)
       THEN \* return; when main() was the caller it has nothing left to do
            /\ obs' = [obs EXCEPT !.guard_returns = @ + 1]
            /\ IF Len(stack) = 2 /\ stack[1].pc = "returned"
               THEN Exit(0)
               ELSE /\ stack' = SubSeq(stack, 1, Len(stack) - 1)
                    /\ UNCHANGED <<run, exit_status, handlers>>
       ELSE /\ stack' = Goto("set")
            /\ UNCHANGED <<run, exit_status, handlers, obs>>
    /\ UNCHANGED <<launch, procs, envVars, args, wm, units_changed, stopper_initiated, fsVars, mgrVars>>

TsSet ==
    /\ At("trap_stopper", "set")
    /\ stopper_initiated' = TRUE
    /\ stack' = Goto("stop_wm")
    /\ UNCHANGED <<launch, procs, envVars, run, exit_status, args, wm, units_changed, handlers, fsVars,
                   mgrVars, obs>>

\* an exit with the outcome of the stop step alone
StopCodeOnly(frame) == frame.stop_rc

\* "stop_rc if systemctl_rc is None else systemctl_rc"
ExitCode(frame) == IF frame.has_rc THEN frame.systemctl_rc ELSE frame.stop_rc

\* sys.exit(stop_rc if systemctl_rc is None else systemctl_rc)
TsExit ==
    /\ At("trap_stopper", "ts_exit")
    /\ Exit(ExitCode(Top))
    /\ obs' = [obs EXCEPT !.exit_from = IF Top.has_rc THEN "main" ELSE "signal"]
    /\ UNCHANGED <<launch, procs, envVars, args, wm, units_changed, stopper_initiated, fsVars, mgrVars>>

(***************************************************************************)
(* stop_wm(), called by trap_stopper() and by the stop command.            *)
(***************************************************************************)
ActiveWmUnits == {u \in WmUnits : unit_state[u] \in {"active", "activating"}}

AtStopWm(pc) == run = "running" /\ stack # <<>> /\ Top.pc = pc

\* what ListUnitsByPatterns may return for a set of units: the units in any
\* order
Listings(found) ==
    {units \in UNION {[1..n -> found] : n \in {Cardinality(found)}} :
       \A i, j \in DOMAIN units : units[i] = units[j] => i = j}

\* a stop request for the last unit of the list
LastUnit(units) == units[Len(units)]

\* "StopUnit(units[0], 'fail')"
StopTarget(units) == units[1]

\* ListUnitsByPatterns, then "if not units: return False", "if
\* args.dry_run: return True", then StopUnit(units[0], "fail")
StopWm ==
    /\ AtStopWm("stop_wm")
    /\ \E units \in Listings(ActiveWmUnits) :
         IF units = <<>> \/ args.dry_run
         THEN /\ stack' = Goto(AfterStopPc(Top))
              /\ obs' = [obs EXCEPT !.stops = @ + 1,
                                    !.listed = TRUE, !.units = units,
                                    !.stop_returned = TRUE,
                                    !.stop_result = units # <<>>]
              /\ UNCHANGED jobs
         ELSE /\ JobFree
              /\ jobs' = jobs \cup {[id |-> NewJob, kind |-> "stop",
                                       unit |-> StopTarget(units)]}
              /\ stack' = [stack EXCEPT ![Len(stack)].pc = "stop_wait",
                                        ![Len(stack)].job = NewJob]
              /\ obs' = [obs EXCEPT !.stops = @ + 1, !.stop_requests = @ + 1,
                                    !.listed = TRUE, !.units = units,
                                    !.stop_units = Append(@, StopTarget(units))]
    /\ UNCHANGED <<launch, procs, envVars, run, exit_status, args, wm, units_changed, stopper_initiated,
                   handlers, fsVars, unit_state>>

\* the poll of stop_wm() that finds the job gone from ListJobs()
StopWmWait ==
    /\ AtStopWm("stop_wait")
    /\ JobGone(Top.job)
    /\ stack' = Goto(AfterStopPc(Top))
    /\ obs' = [obs EXCEPT !.stop_returned = TRUE, !.stop_result = TRUE]
    /\ UNCHANGED <<launch, procs, envVars, run, exit_status, args, wm, units_changed, stopper_initiated,
                   handlers, fsVars, mgrVars>>

\* a request of stop_wm() fails: the caller catches the exception and sets
\* stop_rc = 1
StopWmRaises ==
    /\ AtStopWm("stop_wm") \/ AtStopWm("stop_wait")
    /\ stack' = [stack EXCEPT ![Len(stack)].pc = AfterStopPc(Top),
                              ![Len(stack)].stop_rc = 1]
    /\ obs' = [obs EXCEPT !.stops = IF Top.pc = "stop_wm" THEN @ + 1 ELSE @,
                          !.stop_raised = TRUE]
    /\ UNCHANGED <<launch, procs, envVars, run, exit_status, args, wm, units_changed, stopper_initiated,
                   handlers, fsVars, mgrVars>>

(***************************************************************************)
(* The stop command after stop_wm(): the optional unit removal, the        *)
(* reload, sys.exit(stop_rc).                                              *)
(***************************************************************************)
RemoveUnitsStep ==
    /\ At("main", "remove_units")
    /\ IF args.remove_units
       THEN LET st == RemoveUnits(files, dirs, units_changed, args.remove_only,
                                  args.dry_run)
            IN  /\ files' = st.files
                /\ dirs' = st.dirs
                /\ units_changed' = st.changed
                /\ obs' = [obs EXCEPT !.wrote = st.wrote]
                /\ stack' = Goto(IF ReloadNeeded(st.changed)
                                 THEN "reload" ELSE "exit_stop")
       ELSE /\ stack' = Goto("exit_stop")
            /\ UNCHANGED <<files, dirs, units_changed, obs>>
    /\ UNCHANGED <<launch, procs, envVars, run, exit_status, args, wm, stopper_initiated, handlers,
                   mgrVars>>

StopExit ==
    /\ At("main", "exit_stop")
    /\ Exit(Top.stop_rc)
    /\ UNCHANGED <<launch, procs, envVars, args, wm, units_changed, stopper_initiated, fsVars, mgrVars,
                   obs>>

(***************************************************************************)
(* The aux actions prepare-env and cleanup-env.                            *)
(***************************************************************************)
InvokeAux == \E a \in AuxArgs : Begin(a)

InvokeLife == \E a \in LifeArgs : Begin(a)

\* an aux entry point that goes to the cleanup whatever was requested
AuxCleanupOnly(aux_action) == "aux_cleanup"

\* "if args.aux_action == 'prepare-env': fill_wm_globals() ...
\* elif args.aux_action == 'cleanup-env': ..."
AuxTarget(aux_action) ==
    IF aux_action = "prepare-env" THEN "fill" ELSE "aux_cleanup"

\* "if not manager_pid or manager_pid != ppid: ... sys.exit(1)"
AuxManagerCheck ==
    /\ At("main", "aux")
    /\ \E by_manager \in BOOLEAN :
         IF ~by_manager
         THEN Exit(1)
         ELSE /\ stack' = Goto(AuxTarget(args.aux_action))
              /\ UNCHANGED <<run, exit_status, handlers>>
    /\ UNCHANGED <<args, wm, units_changed, stopper_initiated, fsVars, mgrVars,
                   envVars, launch, procs, obs>>

\* a prepare_env() that goes on whatever the shell printed and returned
ShellIgnored(marked, returncode) == FALSE

\* "if mark_position < 0: ... raise RuntimeError", then
\* "if sprc.returncode != 0: raise RuntimeError"
ShellFails(marked, returncode) == ~marked \/ returncode # 0

\* prepare_env() up to the sets it computes: the manager's environment, the
\* foreground VT and its session, the shell run, the parse and the
\* differences.  A missing VT or session (the first disjunct) raises before
\* the shell runs; an output without the mark and a non-zero return code
\* raise after it.
PrepareEnvWith(outputs) ==
    /\ At("main", "prepare_env")
    /\ \/ /\ stack' = Goto("cleanup_env")
          /\ obs' = [obs EXCEPT !.prepares = @ + 1, !.prep_error = "vt"]
          /\ UNCHANGED prep
       \/ \E marked \in BOOLEAN, returncode \in {0, 1} :
            LET shell == [ran |-> TRUE, marked |-> marked,
                          returncode |-> returncode]
            IN  IF ShellFails(marked, returncode)
                THEN /\ stack' = Goto("cleanup_env")
                     /\ obs' = [obs EXCEPT
                                  !.prepares = @ + 1,
                                  !.prep_error = IF ~marked THEN "mark"
                                                 ELSE "shell",
                                  !.shell = shell]
                     /\ UNCHANGED prep
                ELSE \E stdout \in outputs :
                       LET systemd_vars == mgr_env
                           filtered == filter_varnames(systemd_vars)
                           env_pre == Update(filtered, VtVars)
                           env_post == filter_varnames(ParseEnv(stdout))
                           to_set == set_env(env_pre, env_post)
                       IN  /\ prep' = [NoPrep EXCEPT
                                         !.live = TRUE,
                                         !.systemd_vars = systemd_vars,
                                         !.env_pre = env_pre,
                                         !.systemd_varnames = DOMAIN filtered,
                                         !.stdout = stdout,
                                         !.env_post = env_post,
                                         !.set_env = to_set,
                                         !.unset_varnames =
                                             unset_varnames(env_pre, env_post,
                                                            DOMAIN filtered),
                                         !.cleanup_varnames =
                                             cleanup_varnames(DOMAIN to_set)]
                           /\ stack' = Goto("prep_write")
                           /\ obs' = [obs EXCEPT !.prepares = @ + 1,
                                                 !.shell = shell]
    /\ UNCHANGED <<launch, procs, run, exit_status, args, wm, units_changed, stopper_initiated,
                   handlers, fsVars, mgrVars, mgr_env, manifests, hist>>

PrepareEnv == PrepareEnvWith(ShellOutputs)

\* the cleanup file is read if there is one and written with the union
PrepWrite ==
    /\ At("main", "prep_write")
    /\ LET current_cleanup_varnames ==
               IF wm.wm_id \in DOMAIN manifests
               THEN ReadNames(manifests[wm.wm_id]) ELSE {}
           lines == ManifestLines(current_cleanup_varnames,
                                  prep.cleanup_varnames)
       IN  manifests' = [id \in DOMAIN manifests \cup {wm.wm_id} |->
                           IF id = wm.wm_id THEN lines ELSE manifests[id]]
    /\ hist' = [hist EXCEPT
                  !.acc[wm.wm_id] = @ \cup prep.cleanup_varnames,
                  !.runs[wm.wm_id] = IF @ = 0 THEN 1 ELSE 2]
    /\ stack' = Goto("prep_export")
    /\ UNCHANGED <<launch, procs, run, exit_status, args, wm, units_changed, stopper_initiated,
                   handlers, fsVars, mgrVars, mgr_env, prep, obs>>

\* set_systemd_vars(set_env), then unset_systemd_vars(unset_varnames) if
\* there is a name to unset; a failing request raises
PrepExport ==
    /\ At("main", "prep_export")
    /\ \E request_ok \in BOOLEAN :
         IF request_ok
         THEN /\ mgr_env' =
                   LET env == SetEnvironment(mgr_env, prep.set_env)
                   IN  IF prep.unset_varnames # {}
                       THEN UnsetEnvironment(env, prep.unset_varnames)
                       ELSE env
              /\ prep' = [prep EXCEPT !.exported = TRUE,
                                      !.sent_set = prep.set_env,
                                      !.sent_unset = prep.unset_varnames]
              /\ hist' = [hist EXCEPT
                            !.held = (@ \cup DOMAIN prep.set_env)
                                     \ prep.unset_varnames]
              /\ stack' = Goto("prep_exit")
              /\ UNCHANGED obs
         ELSE /\ prep' = NoPrep
              /\ stack' = Goto("cleanup_env")
              /\ obs' = [obs EXCEPT !.prep_error = "request"]
              /\ UNCHANGED <<mgr_env, hist>>
    /\ UNCHANGED <<launch, procs, run, exit_status, args, wm, units_changed, stopper_initiated,
                   handlers, fsVars, mgrVars, manifests>>

\* prepare_env() returns: sys.exit(0)
PrepExit ==
    /\ At("main", "prep_exit")
    /\ Exit(0)
    /\ prep' = NoPrep
    /\ hist' = [hist EXCEPT !.succeeded = TRUE]
    /\ UNCHANGED <<launch, procs, args, wm, units_changed, stopper_initiated, fsVars, mgrVars,
                   mgr_env, manifests, obs>>

\* "if is_active('compositor-only', verbose_active=True): ... sys.exit(1)"
AuxCleanupCheck ==
    /\ At("main", "aux_cleanup")
    /\ IF is_active(FALSE)
       THEN Exit(1)
       ELSE stack' = Goto("cleanup_env") /\ UNCHANGED <<run, exit_status, handlers>>
    /\ UNCHANGED <<args, wm, units_changed, stopper_initiated, fsVars, mgrVars,
                   envVars, launch, procs, obs>>

\* a cleanup that goes on without cleanup files
AlwaysCleanupFiles(cleanup_files) == FALSE

\* "if not cleanup_files: ... return False"
NoCleanupFiles(cleanup_files) == cleanup_files = {}

AtCleanupEnv == run = "running" /\ stack # <<>> /\ Top.pc = "cleanup_env"

\* a cleanup that has removed the files when a request raises
RemovedFirst(cleanup_files) == {}

\* the cleanup files on disk when get_systemd_vars() or
\* unset_systemd_vars() raises: the os.remove loop comes after both
FilesAtError(cleanup_files) == cleanup_files

\* cleanup_env(), then the caller's sys.exit: 1 after a failed prepare_env()
\* or when cleanup_env() raises, 0 otherwise.  The read of the manager's
\* environment and the unset request may raise.
CleanupEnv ==
    /\ AtCleanupEnv
    /\ IF NoCleanupFiles(DOMAIN manifests)
       THEN /\ obs' = [obs EXCEPT !.cleanups = 1]
            /\ UNCHANGED <<mgr_env, manifests, hist>>
            /\ Exit(IF args.aux_action = "prepare-env" THEN 1 ELSE 0)
       ELSE LET current_cleanup_varnames ==
                    UNION {ReadNames(manifests[id]) : id \in DOMAIN manifests}
                names == CleanupVarnames(current_cleanup_varnames,
                                         DOMAIN mgr_env)
            IN  \E outcome \in {"done", "get_systemd_vars", "unset_systemd_vars"} :
                  IF outcome = "done"
                  THEN /\ mgr_env' = IF names # {}
                                     THEN UnsetEnvironment(mgr_env, names)
                                     ELSE mgr_env
                       /\ manifests' = NoManifests
                       /\ obs' = [obs EXCEPT
                                    !.cleanups = 1, !.cleaned = TRUE,
                                    !.cleanup_files = DOMAIN manifests,
                                    !.cleanup_sent = names,
                                    !.cleanup_unsets =
                                        IF names # {} THEN 1 ELSE 0,
                                    !.cleanup_due =
                                        UNION {hist.acc[id] : id \in WmIds},
                                    !.after_prepare = hist.succeeded]
                       /\ hist' = [NoHist EXCEPT !.held = hist.held \ names]
                       /\ Exit(IF args.aux_action = "prepare-env" THEN 1
                               ELSE 0)
                  ELSE /\ outcome = "unset_systemd_vars" => names # {}
                       /\ manifests' =
                            [id \in FilesAtError(DOMAIN manifests) |->
                               manifests[id]]
                       /\ obs' = [obs EXCEPT
                                    !.cleanups = 1,
                                    !.cleanup_files = DOMAIN manifests,
                                    !.cleanup_error = outcome]
                       /\ UNCHANGED <<mgr_env, hist>>
                       /\ Exit(1)
    /\ UNCHANGED <<launch, procs, args, wm, units_changed, stopper_initiated, fsVars, mgrVars,
                   prep>>

(***************************************************************************)
(* The service manager.                                                    *)
(***************************************************************************)
\* a pending job completes; a stop job leaves its unit inactive
JobDone ==
    \E j \in jobs :
      /\ jobs' = jobs \ {j}
      /\ unit_state' = IF j.kind = "stop"
                       THEN [unit_state EXCEPT ![j.unit] = "inactive"]
                       ELSE unit_state
      /\ UNCHANGED <<launch, procs, envVars, procVars, fsVars, obs>>

\* the compositor reports readiness (uwsm finalize)
CompositorReady ==
    \E u \in WmUnits :
      /\ unit_state[u] = "activating"
      /\ unit_state' = [unit_state EXCEPT ![u] = "active"]
      /\ UNCHANGED <<launch, procs, envVars, procVars, fsVars, jobs,
                     obs>>

\* the compositor exits, or its start fails
CompositorExit ==
    \E u \in WmUnits :
      /\ unit_state[u] \in {"activating", "active"}
      /\ unit_state' = [unit_state EXCEPT ![u] = "inactive"]
      /\ UNCHANGED <<launch, procs, envVars, procVars, fsVars, jobs,
                     obs>>

Manager == JobDone \/ CompositorReady \/ CompositorExit

Start ==
    \/ FillGlobals \/ CheckActive \/ Generate \/ Reload \/ ReloadWait
    \/ AfterReload \/ GraphicalCheck \/ InstallHandlers \/ StartRequest
    \/ SystemctlReturns

Stopper == TsCheck \/ TsSet \/ TsExit \/ StopWm \/ StopWmWait \/ StopWmRaises

Stop == RemoveUnitsStep \/ StopExit

Next == InvokeStart \/ InvokeStop \/ Start \/ Stopper \/ Stop \/ Manager

Spec == Init /\ [][Next]_vars

(***************************************************************************)
(* The lifecycle of one compositor with signals, and the cleanup the       *)
(* manager runs as ExecStop of the preloader.                              *)
(***************************************************************************)
AuxCleanup == AuxManagerCheck \/ AuxCleanupCheck \/ CleanupEnv

NextLife ==
    InvokeLife \/ Start \/ Signal \/ Stopper \/ Stop \/ Manager \/ AuxCleanup

SpecLife == Init /\ [][NextLife]_vars

(***************************************************************************)
(* uwsm finalize, a process the compositor starts: finalize() step by      *)
(* step.  Each query of the manager, the read of the cleanup file, its     *)
(* write and the export are steps of their own: other processes and the    *)
(* manager may act between them.                                           *)
(***************************************************************************)
ProcAt(p, mode, pc) ==
    procs[p].mode = mode /\ ~procs[p].exited /\ procs[p].pc = pc

\* sys.exit(rc) of a process
ProcExit(self, rc) == [self EXCEPT !.pc = "done", !.exited = TRUE, !.rc = rc]

ProcsIdle == \A p \in Pids : procs[p].mode = "none" \/ procs[p].exited

\* the id of the unit's instance that a decoding of its escapes gives
IdOfUnit(u) ==
    LET id == CHOOSE id \in {IdSway, IdWm} :
                simple_systemd_escape(id, FALSE) = u
    IN  Join(unicode_escape(EscapedChars(id, FALSE)))

\* get_active_wm_id(): the first unit of the list, "@" and ".service"
\* split off, the escapes decoded; "" without a unit
get_active_wm_id(units) ==
    IF units = <<>> THEN "" ELSE IdOfUnit(units[1])

\* the unit of a compositor id
UnitOfId(wm_id) ==
    CHOOSE u \in WmUnits : IdOfUnit(u) = wm_id

ActivatingWmUnits == {u \in WmUnits : unit_state[u] = "activating"}

\* "for var in ['WAYLAND_DISPLAY', 'DISPLAY'] + sorted(additional_vars):
\* value = os.getenv(var, None) ..."
ExportVars(environ, additional_vars) ==
    LET names == ({"WAYLAND_DISPLAY", "DISPLAY"}
                  \cup {additional_vars[i] : i \in DOMAIN additional_vars})
                 \cap DOMAIN environ
    IN  [var \in names |-> environ[var]]

InvokeFinalize(p) ==
    /\ procs[p].mode = "none" \/ procs[p].exited
    /\ \E inp \in FinInputs :
         procs' = [procs EXCEPT ![p] =
                     [NoProc EXCEPT !.mode = "finalize", !.pc = "fin",
                                    !.environ = inp.environ,
                                    !.env_names = inp.env_names]]
    /\ UNCHANGED <<procVars, fsVars, mgrVars, envVars, obs, launch>>

\* "if not os.getenv('WAYLAND_DISPLAY', ''): ... sys.exit(1)", then the
\* variables to export
FinGetenv(p) ==
    /\ ProcAt(p, "finalize", "fin")
    /\ LET self == procs[p]
           display == IF "WAYLAND_DISPLAY" \in DOMAIN self.environ
                      THEN self.environ["WAYLAND_DISPLAY"] ELSE ""
       IN  procs' = [procs EXCEPT ![p] =
                       IF display = ""
                       THEN ProcExit(self, 1)
                       ELSE [self EXCEPT
                               !.pc = "fin_wm_id",
                               !.export_vars =
                                   ExportVars(self.environ, self.env_names)]]
    /\ UNCHANGED <<procVars, fsVars, mgrVars, envVars, obs, launch>>

\* "wm_id = get_active_wm_id()"
FinWmId(p) ==
    /\ ProcAt(p, "finalize", "fin_wm_id")
    /\ \E units \in Listings(ActiveWmUnits) :
         procs' = [procs EXCEPT ![p].wm_id = get_active_wm_id(units),
                                ![p].pc = "fin_activating"]
    /\ UNCHANGED <<procVars, fsVars, mgrVars, envVars, obs, launch>>

\* a finalize that takes whatever unit it found
NoConflictCheck(wm_id, activating_wm_id) == wm_id = ""

\* "if not isinstance(wm_id, str) or not wm_id: ... sys.exit(1)",
\* "if activating_wm_id and wm_id != activating_wm_id: ... sys.exit(1)"
FinRefuses(wm_id, activating_wm_id) ==
    wm_id = "" \/ (activating_wm_id # "" /\ wm_id # activating_wm_id)

\* "activating_wm_id = get_active_wm_id(active=False, activating=True)" and
\* the two tests of the ids
FinActivating(p) ==
    /\ ProcAt(p, "finalize", "fin_activating")
    /\ \E units \in Listings(ActivatingWmUnits) :
         LET self == procs[p]
             activating_wm_id == get_active_wm_id(units)
         IN  procs' = [procs EXCEPT ![p] =
                         IF FinRefuses(self.wm_id, activating_wm_id)
                         THEN [ProcExit(self, 1) EXCEPT
                                 !.activating_wm_id = activating_wm_id]
                         ELSE [self EXCEPT
                                 !.activating_wm_id = activating_wm_id,
                                 !.pc = "fin_read"]]
    /\ UNCHANGED <<procVars, fsVars, mgrVars, envVars, obs, launch>>

\* "if os.path.isfile(cleanup_file): ... readlines() ... else: sys.exit(1)"
FinRead(p) ==
    /\ ProcAt(p, "finalize", "fin_read")
    /\ LET self == procs[p]
       IN  procs' = [procs EXCEPT ![p] =
                       IF self.wm_id \in DOMAIN manifests
                       THEN [self EXCEPT
                               !.current_cleanup_varnames =
                                   ReadNames(manifests[self.wm_id]),
                               !.pc = "fin_write"]
                       ELSE [ProcExit(self, 1) EXCEPT !.no_file = TRUE]]
    /\ UNCHANGED <<procVars, fsVars, mgrVars, envVars, obs, launch>>

\* "open(cleanup_file, 'w') ... write('\n'.join(sorted(
\* current_cleanup_varnames | set(export_vars_names))))"
FinWrite(p) ==
    /\ ProcAt(p, "finalize", "fin_write")
    /\ LET self == procs[p]
           lines == SortedLines(self.current_cleanup_varnames
                                \cup DOMAIN self.export_vars)
       IN  manifests' = [id \in DOMAIN manifests \cup {self.wm_id} |->
                           IF id = self.wm_id THEN lines ELSE manifests[id]]
    /\ procs' = [procs EXCEPT ![p].pc = "fin_export", ![p].wrote = TRUE]
    /\ UNCHANGED <<procVars, fsVars, mgrVars, mgr_env, prep, hist, obs, launch>>

\* "try: set_systemd_vars(export_vars) except Exception: ... sys.exit(1)"
FinExport(p) ==
    /\ ProcAt(p, "finalize", "fin_export")
    /\ LET self == procs[p]
       IN  \E request_ok \in BOOLEAN :
             IF request_ok
             THEN /\ mgr_env' = SetEnvironment(mgr_env, self.export_vars)
                  /\ hist' = [hist EXCEPT
                                !.held = @ \cup DOMAIN self.export_vars]
                  /\ procs' = [procs EXCEPT ![p].pc = "fin_notify",
                                            ![p].exported = TRUE]
             ELSE /\ procs' = [procs EXCEPT ![p] =
                                 [ProcExit(self, 1) EXCEPT
                                    !.export_failed = TRUE]]
                  /\ UNCHANGED <<mgr_env, hist>>
    /\ UNCHANGED <<procVars, fsVars, mgrVars, manifests, prep, obs, launch>>

\* a finalize that notifies whatever state the unit was in
NotifiesAlways(activating_wm_id) == TRUE

\* "if activating_wm_id:"
Notifies(activating_wm_id) == activating_wm_id # ""

\* os.execlp("systemd-notify", "systemd-notify", "--ready"), which ends
\* with 0 and leaves the activating unit active, or sys.exit(0)
FinNotify(p) ==
    /\ ProcAt(p, "finalize", "fin_notify")
    /\ LET self == procs[p]
       IN  IF Notifies(self.activating_wm_id)
           THEN /\ procs' = [procs EXCEPT ![p] =
                               [ProcExit(self, 0) EXCEPT !.notified = TRUE]]
                /\ unit_state' =
                     [u \in WmUnits |->
                        IF u = UnitOfId(self.wm_id)
                           /\ unit_state[u] = "activating"
                        THEN "active" ELSE unit_state[u]]
           ELSE /\ procs' = [procs EXCEPT ![p] = ProcExit(self, 0)]
                /\ UNCHANGED unit_state
    /\ UNCHANGED <<procVars, fsVars, jobs, envVars, obs, launch>>

Finalize(p) ==
    \/ FinGetenv(p) \/ FinWmId(p) \/ FinActivating(p) \/ FinRead(p)
    \/ FinWrite(p) \/ FinExport(p) \/ FinNotify(p)

\* C31: finalize sends the startup-ready notification only after it found a
\* compositor unit activating, found the manifest of the session and wrote
\* it, and exported the variables; a finalize that found WAYLAND_DISPLAY
\* empty, no unit active or activating, another unit activating than the
\* one it found first, no manifest, or whose export failed has exited with
\* status 1 and has not notified.
FinRefused(self) ==
    \/ self.pc \notin {"fin", "none"}
       /\ ("WAYLAND_DISPLAY" \notin DOMAIN self.environ
           \/ self.environ["WAYLAND_DISPLAY"] = "")
    \/ self.pc \notin {"fin", "fin_wm_id", "fin_activating", "none"}
       /\ (self.wm_id = ""
           \/ (self.activating_wm_id # ""
               /\ self.activating_wm_id # self.wm_id))
    \/ self.no_file
    \/ self.export_failed

C31_NotifiesOnlyAfterExport ==
    \A p \in Pids :
      LET self == procs[p]
      IN  self.mode = "finalize" =>
            /\ self.notified =>
                  /\ self.activating_wm_id # ""
                  /\ self.activating_wm_id = self.wm_id
                  /\ self.wrote /\ ~self.no_file
                  /\ self.exported /\ ~self.export_failed
                  /\ "WAYLAND_DISPLAY" \in DOMAIN self.export_vars
                  /\ self.export_vars["WAYLAND_DISPLAY"] # ""
            /\ FinRefused(self) =>
                  self.exited /\ self.rc = 1 /\ ~self.notified

C31_Witness ==
    /\ procs[1].mode = "finalize" /\ procs[1].notified
    /\ procs[1].exited /\ procs[1].rc = 0
    /\ unit_state[UnitOfId(procs[1].wm_id)] = "active"

(***************************************************************************)
(* The stop command alone, whatever compositor units the manager holds:    *)
(* units started by other means may be activating side by side.            *)
(***************************************************************************)
InitStop ==
    /\ run = "idle"
    /\ exit_status = 0
    /\ args = NoArgs
    /\ wm = NoWm
    /\ units_changed = FALSE
    /\ stopper_initiated = FALSE
    /\ handlers = FALSE
    /\ stack = <<>>
    /\ files = <<>>
    /\ dirs = {}
    /\ jobs = {}
    /\ unit_state \in [WmUnits -> {"inactive", "activating"}]
    /\ mgr_env = [var \in {"PATH"} |-> "/usr/bin"]
    /\ manifests = NoManifests
    /\ prep = NoPrep
    /\ hist = NoHist
    /\ obs = NoObs
    /\ launch = NoLaunch
    /\ procs = NoProcs

NextStop ==
    InvokeStop \/ StopWm \/ StopWmWait \/ StopWmRaises \/ Stop \/ Manager

SpecStop == InitStop /\ [][NextStop]_vars

(***************************************************************************)
(* The aux actions alone, from each of the initial environment blocks.     *)
(***************************************************************************)
InitEnv ==
    /\ run = "idle"
    /\ exit_status = 0
    /\ args = NoArgs
    /\ wm = NoWm
    /\ units_changed = FALSE
    /\ stopper_initiated = FALSE
    /\ handlers = FALSE
    /\ stack = <<>>
    /\ files = <<>>
    /\ dirs = {}
    /\ jobs = {}
    /\ unit_state = [u \in WmUnits |-> "inactive"]
    /\ mgr_env \in InitEnvs
    /\ manifests = NoManifests
    /\ prep = NoPrep
    /\ hist = NoHist
    /\ obs = NoObs
    /\ launch = NoLaunch
    /\ procs = NoProcs

Prepare == FillGlobals \/ PrepareEnv \/ PrepWrite \/ PrepExport \/ PrepExit

NextEnv == InvokeAux \/ Prepare \/ AuxCleanup

SpecEnv == InitEnv /\ [][NextEnv]_vars

(***************************************************************************)
(* The environment of a session over its life, one invocation at a time:   *)
(* the preloader's prepare-env, the compositor's finalize, the cleanup.    *)
(***************************************************************************)
InitSeq ==
    /\ run = "idle"
    /\ exit_status = 0
    /\ args = NoArgs
    /\ wm = NoWm
    /\ units_changed = FALSE
    /\ stopper_initiated = FALSE
    /\ handlers = FALSE
    /\ stack = <<>>
    /\ files = <<>>
    /\ dirs = {}
    /\ jobs = {}
    /\ unit_state \in [WmUnits -> {"inactive", "activating"}]
    /\ mgr_env = [var \in {"PATH"} |-> "/usr/bin"]
    /\ manifests = NoManifests
    /\ prep = NoPrep
    /\ hist = NoHist
    /\ obs = NoObs
    /\ launch = NoLaunch
    /\ procs = NoProcs

\* no invocation is running
Quiet == run # "running" /\ ProcsIdle

\* the shell outputs and the aux invocations of the session's life
SeqOutputs ==
    { {<<"PATH", "/usr/bin">>},
      {<<"PATH", "/usr/bin">>, <<"FOO", "1">>,
       <<"WAYLAND_DISPLAY", "wayland-1">>},
      {<<"PATH", "/opt/bin">>, <<"SSH_AUTH_SOCK", "/s">>, <<"garbage">>} }

SeqAuxArgs ==
    {a \in AuxArgs : a.aux_action = "cleanup-env" \/ a.d.wm_id = IdSway}

\* an aux invocation once every earlier invocation has ended
InvokeAuxAlone ==
    /\ Quiet
    /\ \E a \in SeqAuxArgs : BeginMain(a)
    /\ procs' = NoProcs
    /\ UNCHANGED <<launch, envVars, fsVars, mgrVars>>

\* a finalize once every earlier invocation has ended
InvokeFinalizeAlone ==
    /\ Quiet
    /\ \E inp \in FinInputs :
         procs' = [procs EXCEPT ![1] =
                     [NoProc EXCEPT !.mode = "finalize", !.pc = "fin",
                                    !.environ = inp.environ,
                                    !.env_names = inp.env_names]]
    /\ run' = "idle"
    /\ exit_status' = 0
    /\ args' = NoArgs
    /\ wm' = NoWm
    /\ obs' = NoObs
    /\ UNCHANGED <<units_changed, stopper_initiated, handlers, stack, launch,
                   envVars, fsVars, mgrVars>>

PrepareSeq ==
    \/ FillGlobals \/ PrepareEnvWith(SeqOutputs) \/ PrepWrite \/ PrepExport
    \/ PrepExit

NextSeq ==
    \/ InvokeAuxAlone \/ PrepareSeq \/ AuxCleanup
    \/ InvokeFinalizeAlone \/ Finalize(1)
    \/ CompositorExit

SpecSeq == InitSeq /\ [][NextSeq]_vars

\* the names in the cleanup files
ManifestNames == UNION {ReadNames(manifests[id]) : id \in DOMAIN manifests}

StoreData ==
    {NoData,
     [marker |-> Join(IdSway), data |-> <<"[Unit]", "Description=x">>],
     [marker |-> Join(IdSway), data |-> <<"[Unit]", "Description=y">>],
     Generic("wayland-session@.target", "")}

\* the paths handed to update_unit and remove_unit: a unit, a drop-in, the
\* two files that are no units, a drop-in two directories down
StoreUnits ==
    {<< <<"wayland-session@", "target">> >>,
     wm_specific_service([wm_id_unit_string |->
                              simple_systemd_escape(IdSway, FALSE)]),
     NotesFile, ConfLikeFile,
     << <<"a", "d">>, <<"b", "d">>, <<"c", "conf">> >>}

\* the content of a file owned by the id
OwnedBy(id) == [marker |-> id, data |-> <<"[Unit]", "Description=x">>]

\* the unit roots the calls start from
StoreInits ==
    LET sway == [wm_id_unit_string |-> simple_systemd_escape(IdSway, FALSE)]
        w_m == [wm_id_unit_string |-> simple_systemd_escape(IdWm, FALSE)]
        target == << <<"wayland-session@", "target">> >>
        units == [u \in {target, wm_specific_service(sway),
                         wm_specific_service(w_m)} |->
                    IF u = target THEN Generic("wayland-session@.target", "")
                    ELSE IF u = wm_specific_service(sway)
                    THEN OwnedBy(Join(IdSway)) ELSE OwnedBy(Join(IdWm))]
        foreign == [u \in DOMAIN units \cup {NotesFile, ConfLikeFile} |->
                      IF u \in DOMAIN units THEN units[u]
                      ELSE OwnedBy(Join(IdSway))]
        plain == [u \in DOMAIN units \cup {NotesFile} |->
                    IF u \in DOMAIN units THEN units[u]
                    ELSE [marker |-> "", data |-> <<"a note">>]]
    IN  {[u \in {} |-> NoData], foreign, plain}

InitStore ==
    /\ run = "idle"
    /\ exit_status = 0
    /\ args = NoArgs
    /\ wm = NoWm
    /\ units_changed = FALSE
    /\ stopper_initiated = FALSE
    /\ handlers = FALSE
    /\ stack = <<>>
    /\ files \in StoreInits
    /\ dirs = UNION {DirsOf(u) : u \in DOMAIN files}
    /\ jobs = {}
    /\ unit_state = [u \in WmUnits |-> "inactive"]
    /\ mgr_env = [var \in {"PATH"} |-> "/usr/bin"]
    /\ manifests = NoManifests
    /\ prep = NoPrep
    /\ hist = NoHist
    /\ obs = NoObs
    /\ launch = NoLaunch
    /\ procs = NoProcs

NoStep == [files |-> files, dirs |-> dirs, changed |-> units_changed,
           raised |-> FALSE, wrote |-> FALSE, anyret |-> FALSE]

\* the store after the call, and the call as observed
Called(st, call) ==
    /\ files' = st.files
    /\ dirs' = st.dirs
    /\ units_changed' = st.changed
    /\ obs' = [NoObs EXCEPT !.call = [call EXCEPT !.raised = st.raised]]
    /\ UNCHANGED <<run, exit_status, args, wm, stopper_initiated, handlers,
                   stack, mgrVars, envVars, launch, procs>>

CallUpdateUnit ==
    \E unit \in StoreUnits, data \in StoreData, dry \in BOOLEAN :
      LET st == UpdateUnit(NoStep, unit, data, dry)
      IN  Called(st, [NoCall EXCEPT !.op = "update_unit", !.unit = unit,
                                    !.data = data, !.dry = dry,
                                    !.ret = st.anyret])

CallRemoveUnit ==
    \E unit \in StoreUnits, dry \in BOOLEAN :
      LET st == RemoveUnit(NoStep, unit, dry)
      IN  Called(st, [NoCall EXCEPT !.op = "remove_unit", !.unit = unit,
                                    !.dry = dry,
                                    !.ret = (~st.raised
                                             /\ unit \in DOMAIN files)])

CallRemoveUnits ==
    \E only \in {"", Join(IdSway), Join(IdWm)}, dry \in BOOLEAN :
      LET st == RemoveUnits(files, dirs, units_changed, only, dry)
      IN  Called(st, [NoCall EXCEPT !.op = "remove_units", !.only = only,
                                    !.dry = dry])

\* reload_systemd() resets the flag
CallReload ==
    /\ units_changed
    /\ units_changed' = FALSE
    /\ obs' = NoObs
    /\ UNCHANGED <<run, exit_status, args, wm, stopper_initiated, handlers,
                   stack, fsVars, mgrVars, envVars, launch, procs>>

NextStore == CallUpdateUnit \/ CallRemoveUnit \/ CallRemoveUnits \/ CallReload

SpecStore == InitStore /\ [][NextStore]_vars

(***************************************************************************)
(* uwsm app: main() calls app(), which either replaces the process by one  *)
(* systemd-run or starts one systemd-run per instance and polls them.      *)
(***************************************************************************)
InvokeApp ==
    /\ run \in {"idle", "exited", "replaced"}
    /\ \E inp \in AppInputs : launch' = [NoLaunch EXCEPT !.inp = inp]
    /\ run' = "running"
    /\ exit_status' = 0
    /\ args' = [NoArgs EXCEPT !.mode = "app"]
    /\ wm' = NoWm
    /\ units_changed' = FALSE
    /\ stopper_initiated' = FALSE
    /\ handlers' = FALSE
    /\ stack' = <<Frame("main", "app", FALSE, 0)>>
    /\ obs' = NoObs
    /\ UNCHANGED <<envVars, fsVars, mgrVars, procs>>

\* "app_name or os.path.basename(cmdline[0])", app_name being the entry id
\* without its extension when an entry is given without -a
NameRuns(inp) == IF inp.app_name # <<>> THEN inp.app_name ELSE inp.base

\* the process subprocess.Popen(final_args) starts
SubApp(inp, cmdline) ==
    [cmdline |-> cmdline,
     unit_name |-> UnitName(inp.desktop, NameRuns(inp), inp.app_unit_type),
     alive |-> TRUE, returncode |-> 0]

\* app(): a failure ends main() with status 1; an iterative launch starts
\* its instances and goes on to poll them; a single launch execs
App ==
    /\ At("main", "app")
    /\ LET inp == launch.inp
           gen == IF inp.is_entry
                  THEN gen_entry_args(inp.entry, inp.arguments, inp.entry_action)
                  ELSE [NoArgv EXCEPT !.raised = FALSE]
       IN  IF gen.raised \/ ~inp.in_path
           THEN /\ Exit(1)
                /\ launch' = [launch EXCEPT !.gen = gen]
           ELSE IF gen.iterated
           THEN /\ launch' =
                     [launch EXCEPT
                        !.gen = gen,
                        !.sub_apps =
                            [i \in 1..Len(gen.instances) |->
                               SubApp(inp, <<gen.cmd>> \o gen.instances[i])],
                        !.sub_apps_rc =
                            [i \in 1..Len(gen.instances) |->
                               [done |-> FALSE, rc |-> 0]],
                        !.idx = 0]
                /\ stack' = Goto("poll")
                /\ UNCHANGED <<run, exit_status, handlers>>
           ELSE /\ launch' =
                     [launch EXCEPT
                        !.gen = gen,
                        !.single =
                            [cmdline |->
                                 IF inp.is_entry THEN <<gen.cmd>> \o gen.args
                                 ELSE <<W("cmd")>> \o inp.arguments,
                             unit_name |-> UnitName(inp.desktop, NameRuns(inp),
                                                    inp.app_unit_type)]]
                /\ run' = "replaced"
                /\ stack' = <<>>
                /\ UNCHANGED <<exit_status, handlers>>
    /\ UNCHANGED <<envVars, args, wm, units_changed, stopper_initiated, fsVars,
                   mgrVars, obs, procs>>

\* a loop that ends when one return code is in
AnyPolled(sub_apps_rc) == \E i \in 1..Len(sub_apps_rc) : sub_apps_rc[i].done

\* "all(map(is_int, sub_apps_rc))"
AllPolled(sub_apps_rc) == \A i \in 1..Len(sub_apps_rc) : sub_apps_rc[i].done

\* one pass of "for idx, sub_app in enumerate(sub_apps)": a process not yet
\* seen to have ended is polled; after the last one and the sleep the loop
\* ends if every return code is in
Poll ==
    /\ At("main", "poll")
    /\ LET idx == launch.idx
           sub_app == launch.sub_apps[idx + 1]
           polled == IF ~launch.sub_apps_rc[idx + 1].done /\ ~sub_app.alive
                     THEN [launch.sub_apps_rc EXCEPT
                             ![idx + 1] = [done |-> TRUE,
                                           rc |-> sub_app.returncode]]
                     ELSE launch.sub_apps_rc
           last == idx + 1 = Len(launch.sub_apps)
       IN  /\ launch' = [launch EXCEPT !.sub_apps_rc = polled,
                                       !.idx = IF last THEN 0 ELSE idx + 1]
           /\ stack' = Goto(IF last /\ AllPolled(polled)
                            THEN "app_exit" ELSE "poll")
    /\ UNCHANGED <<envVars, run, exit_status, args, wm, units_changed,
                   stopper_initiated, handlers, fsVars, mgrVars, obs, procs>>

\* "if any(sub_apps_rc): sys.exit(1)" else "sys.exit(0)"
AppExit ==
    /\ At("main", "app_exit")
    /\ Exit(IF \E i \in 1..Len(launch.sub_apps_rc) : launch.sub_apps_rc[i].rc # 0
            THEN 1 ELSE 0)
    /\ UNCHANGED <<envVars, args, wm, units_changed, stopper_initiated, fsVars,
                   mgrVars, obs, launch, procs>>

\* a systemd-run process ends: with 0, with an error or killed by a signal
SubAppExits ==
    \E i \in 1..Len(launch.sub_apps), rc \in {0, 1, -9} :
      /\ launch.sub_apps[i].alive
      /\ launch' = [launch EXCEPT !.sub_apps[i].alive = FALSE,
                                  !.sub_apps[i].returncode = rc]
      /\ UNCHANGED <<procVars, fsVars, mgrVars, envVars, obs, procs>>

NextApp == InvokeApp \/ App \/ Poll \/ AppExit \/ SubAppExits

SpecApp == Init /\ [][NextApp]_vars

(***************************************************************************)
(* Properties.                                                             *)
(***************************************************************************)
\* C1: with dry-run off and an unchanged descriptor, a generate_units run
\* right after another writes and removes no file, every update_unit call
\* returns False and units_changed stays False; a run against an empty unit
\* root sets units_changed.
C1_SecondRunChangesNothing ==
    /\ (obs.generated /\ obs.repeat) =>
          (~obs.wrote /\ ~obs.anyret /\ ~obs.gen_changed /\ ~units_changed)
    /\ (obs.generated /\ obs.root_empty) => obs.gen_changed

C1_Witness ==
    /\ run = "exited" /\ obs.generated /\ obs.repeat
    /\ ~obs.wrote /\ DOMAIN files # {}

\* the main() frame is past the reload step of a start or a stop invocation
PastReload ==
    \/ run = "exited"
    \/ /\ run = "running"
       /\ stack[1].pc \in {"after_reload", "graphical", "install", "start",
                           "waiting", "returned", "exit_stop"}

Stopping(i) ==
    /\ stack[i].fn = "trap_stopper"
    /\ stack[i].pc \in {"stop_wm", "stop_wait", "ts_exit"}

\* C3: in a start invocation, whatever signals arrive and whenever systemctl
\* returns, stop_wm() is entered at most once, and every trap_stopper frame
\* above the one that entered it is at the guard, from which it returns.
C3_StopEnteredOnce ==
    args.mode = "start" =>
       /\ obs.stops <= 1
       /\ \A i, j \in 1..Len(stack) :
            (i < j /\ Stopping(i)) =>
               (stack[j].fn = "trap_stopper" /\ stack[j].pc = "check")
       /\ obs.guard_returns > 0 => stopper_initiated

C3_Witness ==
    /\ run = "exited" /\ args.mode = "start"
    /\ obs.signals = MaxSignals /\ obs.stops = 1 /\ obs.guard_returns >= 1

\* C4 as stated: an invocation that ran the stop sequence has run
\* cleanup_env() by the time it exits.
C4_CleanupAfterStop ==
    (run = "exited" /\ args.mode \in {"start", "stop"} /\ obs.stops >= 1)
        => obs.cleanups >= 1

\* C4: a start or stop invocation never runs cleanup_env(), whether its stop
\* sequence found a compositor unit to stop or not; cleanup_env() runs in aux
\* invocations only, which never enter stop_wm().
C4_StopWithoutCleanup ==
    /\ args.mode \in {"start", "stop"} => obs.cleanups = 0
    /\ obs.cleanups > 0 => (args.mode = "aux" /\ obs.stops = 0)

C4_Witness ==
    /\ run = "exited" /\ args.mode = "start"
    /\ obs.stops = 1 /\ obs.stop_requests = 0 /\ obs.cleanups = 0

\* C5: when cleanup_env() has run on the cleanup files left by prepare_env()
\* runs of which one returned, the manager holds none of the names of their
\* cleanup sets and no cleanup file exists.
C5_CleanupAfterPrepare ==
    (obs.cleaned /\ obs.after_prepare) =>
       /\ DOMAIN mgr_env \cap obs.cleanup_due = {}
       /\ DOMAIN manifests = {}

C5_Witness ==
    /\ run = "exited" /\ obs.cleaned /\ obs.after_prepare
    /\ {"FOO", "PATH"} \subseteq obs.cleanup_due

\* C6: the cleanup file of an id holds exactly the union of the cleanup sets
\* of the prepare_env() runs for that id since the file was last removed.
C6_ManifestAccumulates ==
    \A id \in WmIds :
       IF hist.runs[id] = 0
       THEN id \notin DOMAIN manifests
       ELSE /\ id \in DOMAIN manifests
            /\ ReadNames(manifests[id]) = hist.acc[id]

C6_Witness ==
    /\ At("main", "prep_export") /\ hist.runs[wm.wm_id] = 2
    /\ ReadNames(manifests[wm.wm_id]) \ prep.cleanup_varnames # {}

\* the pairs the diff policy names for the snapshots pre and post
ToSet(pre, post) ==
    {i \in Items(post) :
       /\ i \notin Items(pre) \/ i[1] \in always_export
       /\ i[1] \notin never_export \cup always_unset}

\* C7: the dict prepare_env() exports is the pairs of post that are not in
\* pre, plus the pairs of post with an always_export name, minus the pairs
\* with a never_export or always_unset name, with pre read as the filtered
\* environment of the manager or as the environment handed to the shell;
\* it is the argument of SetEnvironment and the manager then holds it.
C7_ExportedMapping ==
    prep.live =>
       /\ Items(prep.set_env) = ToSet(prep.env_pre, prep.env_post)
       /\ Items(prep.set_env) =
              ToSet(filter_varnames(prep.systemd_vars), prep.env_post)
       /\ prep.exported =>
             /\ prep.sent_set = prep.set_env
             /\ \A var \in DOMAIN prep.set_env :
                  var \in DOMAIN mgr_env /\ mgr_env[var] = prep.set_env[var]

C7_Witness ==
    /\ prep.exported
    /\ "PATH" \in DOMAIN prep.set_env /\ "PATH" \in DOMAIN prep.systemd_vars
    /\ prep.set_env["PATH"] = prep.systemd_vars["PATH"]
    /\ "FOO" \in DOMAIN prep.set_env /\ "FOO" \in DOMAIN prep.systemd_vars
    /\ {"PWD", "WAYLAND_DISPLAY"} \subseteq DOMAIN prep.env_post

\* C8: the names prepare_env() sends for unset are the keys of pre missing
\* from post plus the always_unset names, intersected with the names the
\* manager held; none of them is a name the manager did not hold, and the
\* manager holds none of them afterwards.
C8_UnsetNames ==
    prep.live =>
       /\ prep.unset_varnames =
              ((DOMAIN prep.env_pre \ DOMAIN prep.env_post) \cup always_unset)
              \cap DOMAIN prep.systemd_vars
       /\ prep.unset_varnames =
              ((DOMAIN filter_varnames(prep.systemd_vars)
                \ DOMAIN prep.env_post) \cup always_unset)
              \cap DOMAIN prep.systemd_vars
       /\ prep.exported =>
             /\ prep.sent_unset = prep.unset_varnames
             /\ prep.sent_unset \subseteq DOMAIN prep.systemd_vars
             /\ prep.sent_unset \cap DOMAIN mgr_env = {}

C8_Witness ==
    /\ prep.exported
    /\ {"WAYLAND_DISPLAY", "FOO"} \subseteq prep.sent_unset
    /\ "DISPLAY" \notin prep.sent_unset
    /\ "XDG_SESSION_ID" \in DOMAIN prep.env_pre \ DOMAIN prep.env_post

\* C33: the names prepare_env() exports and the names it unsets are
\* disjoint for every pair of snapshots, and sending the unset request
\* before the set request would leave the manager with the same environment.
C33_SetAndUnsetDisjoint ==
    /\ prep.live =>
          DOMAIN prep.set_env \cap prep.unset_varnames = {}
    /\ At("main", "prep_export") =>
          /\ DOMAIN set_env(prep.env_pre, prep.env_post)
               \cap unset_varnames(prep.env_pre, prep.env_post,
                                   prep.systemd_varnames) = {}
          /\ UnsetEnvironment(SetEnvironment(mgr_env, prep.set_env),
                              prep.unset_varnames)
             = SetEnvironment(UnsetEnvironment(mgr_env, prep.unset_varnames),
                              prep.set_env)
    /\ prep.exported =>
          /\ prep.sent_set = prep.set_env
          /\ prep.sent_unset = prep.unset_varnames
          /\ DOMAIN prep.sent_set \subseteq DOMAIN mgr_env
          /\ prep.sent_unset \cap DOMAIN mgr_env = {}

C33_Witness ==
    /\ prep.exported
    /\ prep.sent_set # EmptyDict /\ "WAYLAND_DISPLAY" \in prep.sent_unset
    /\ "WAYLAND_DISPLAY" \in DOMAIN prep.env_post
    /\ "WAYLAND_DISPLAY" \in DOMAIN prep.env_pre
    /\ prep.env_post["WAYLAND_DISPLAY"] # prep.env_pre["WAYLAND_DISPLAY"]

(***************************************************************************)
(* The compositor id on its way through the unit name: fill_wm_globals()   *)
(* escapes it for the instance of wayland-wm@.service, the unit of the     *)
(* session runs "aux prepare-env %I", and finalize() decodes the instance  *)
(* of the unit it finds active.  Ids are drawn from the characters the     *)
(* pattern of Val.wm_id admits and "/", which it does not.                 *)
(***************************************************************************)
IdAlphabet == {"a", "Z", "0", "9", "_", ":", ".", "-", "/"}

SomeIds == UNION {[1..n -> IdAlphabet] : n \in 1..MaxIdLen}

InitEsc ==
    /\ run = "idle"
    /\ exit_status = 0
    /\ args = NoArgs
    /\ wm = NoWm
    /\ units_changed = FALSE
    /\ stopper_initiated = FALSE
    /\ handlers = FALSE
    /\ stack = <<>>
    /\ files = <<>>
    /\ dirs = {}
    /\ jobs = {}
    /\ unit_state = [u \in WmUnits |-> "inactive"]
    /\ mgr_env = [var \in {"PATH"} |-> "/usr/bin"]
    /\ manifests = NoManifests
    /\ prep = NoPrep
    /\ hist = NoHist
    /\ obs = NoObs
    /\ launch = NoLaunch
    /\ \E id \in SomeIds :
         procs = [p \in Pids |->
                    IF p = 1
                    THEN [NoProc EXCEPT !.mode = "start", !.pc = "fill",
                                        !.id = id]
                    ELSE NoProc]

\* fill_wm_globals() of uwsm start: the test of the id, then
\* "wm_id_unit_string = simple_systemd_escape(wm_id, start=False)"
EscapeId(p) ==
    /\ ProcAt(p, "start", "fill")
    /\ LET self == procs[p]
       IN  procs' = [procs EXCEPT ![p] =
                       IF ~Val_wm_id(self.id)
                       THEN ProcExit(self, 1)
                       ELSE [self EXCEPT
                               !.instance = EscapedChars(self.id, FALSE),
                               !.pc = "unit"]]
    /\ UNCHANGED <<procVars, fsVars, mgrVars, envVars, obs, launch>>

\* the unit of the session runs aux prepare-env "%I": prepare_env() writes
\* the cleanup file of that id
UnitPrepares(p) ==
    /\ ProcAt(p, "start", "unit")
    /\ LET self == procs[p]
           wm_id == Join(SpecifierI(self.instance))
           lines == ManifestLines({}, cleanup_varnames({}))
       IN  /\ manifests' = [id \in {wm_id} |-> lines]
           /\ procs' = [procs EXCEPT ![p].pc = "up", ![p].wm_id = wm_id]
    /\ UNCHANGED <<procVars, fsVars, mgrVars, mgr_env, prep, hist, obs, launch>>

\* the compositor is up and runs uwsm finalize, which finds the unit of the
\* session active: get_active_wm_id() on its name
FinalizeFinds(p, q) ==
    /\ ProcAt(p, "start", "up")
    /\ procs[q].mode = "none"
    /\ \E inp \in {i \in FinInputs : i.env_names # <<>>} :
         procs' = [procs EXCEPT ![q] =
                     [NoProc EXCEPT
                        !.mode = "finalize", !.pc = "fin_read",
                        !.environ = inp.environ,
                        !.env_names = inp.env_names,
                        !.export_vars = ExportVars(inp.environ, inp.env_names),
                        !.id = procs[p].id,
                        !.instance = procs[p].instance,
                        !.wm_id = Join(unicode_escape(procs[p].instance))]]
    /\ UNCHANGED <<procVars, fsVars, mgrVars, envVars, obs, launch>>

NextEsc ==
    \/ EscapeId(1) \/ UnitPrepares(1) \/ FinalizeFinds(1, 2)
    \/ FinRead(2) \/ FinWrite(2) \/ FinExport(2) \/ FinNotify(2)

SpecEsc == InitEsc /\ [][NextEsc]_vars

\* C38: for every id the pattern of Val.wm_id admits, decoding the escaped
\* instance gives the id back, as the specifier %I does, so the finalize of
\* the session finds the cleanup file its prepare-env wrote and rewrites
\* that file: there is one cleanup file, named by the id.
C38_EscapeRoundTrip ==
    \A p \in Pids :
      LET self == procs[p]
      IN  /\ self.instance # <<>> =>
                /\ Val_wm_id(self.id)
                /\ unicode_escape(self.instance) = self.id
                /\ SpecifierI(self.instance) = self.id
                /\ Join(self.instance) = simple_systemd_escape(self.id, FALSE)
          /\ self.mode = "finalize" =>
                /\ self.wm_id = Join(self.id)
                /\ DOMAIN manifests = {self.wm_id}
                /\ ~self.no_file
                /\ self.pc # "fin_read" =>
                      self.current_cleanup_varnames
                        = cleanup_varnames({})
                /\ self.wrote =>
                      ReadNames(manifests[Join(self.id)])
                        = cleanup_varnames({}) \cup DOMAIN self.export_vars

C38_Witness ==
    /\ procs[2].mode = "finalize" /\ procs[2].wrote /\ procs[2].exited
    /\ procs[2].id = <<"a", "-", ":">>
    /\ procs[2].instance = <<"a", "\\", "x", "2", "d", ":">>
    /\ "FOO" \in ReadNames(manifests["a-:"])

(***************************************************************************)
(* Two start invocations side by side.  Beside the invocation main() runs, *)
(* a second uwsm start is a process of its own, projected on what it asks  *)
(* of the manager: its test of the active units, its start request, and    *)
(* the return of its systemctl once its unit is inactive again.            *)
(***************************************************************************)
PairArgs ==
    { [NoArgs EXCEPT !.mode = "start", !.d = Plain(IdSway)],
      [NoArgs EXCEPT !.mode = "start", !.d = Plain(IdSway),
                     !.dry_run = TRUE] }

InvokePair == \E a \in PairArgs : Begin(a)

\* uwsm start of a compositor, by another process
InvokePeer(p) ==
    /\ procs[p].mode = "none" \/ procs[p].exited
    /\ \E u \in WmUnits :
         procs' = [procs EXCEPT ![p] =
                     [NoProc EXCEPT !.mode = "start", !.pc = "check_active",
                                    !.unit = u]]
    /\ UNCHANGED <<procVars, fsVars, mgrVars, envVars, obs, launch>>

\* "if is_active(verbose_active=True): ... sys.exit(1)"
PeerCheckActive(p) ==
    /\ ProcAt(p, "start", "check_active")
    /\ \E session_targets \in BOOLEAN :
         LET self == procs[p]
             active == is_active(session_targets)
         IN  procs' = [procs EXCEPT ![p] =
                         IF ActiveBlocks(active, FALSE)
                         THEN [ProcExit(self, 1) EXCEPT
                                 !.checked = TRUE, !.saw_active = active]
                         ELSE [self EXCEPT
                                 !.checked = TRUE, !.saw_active = active,
                                 !.pc = "start"]]
    /\ UNCHANGED <<procVars, fsVars, mgrVars, envVars, obs, launch>>

\* its systemctl --user start --wait
PeerStartRequest(p) ==
    /\ ProcAt(p, "start", "start")
    /\ unit_state' = [unit_state EXCEPT ![procs[p].unit] =
                          IF @ = "inactive" THEN "activating" ELSE @]
    /\ procs' = [procs EXCEPT ![p].requested = TRUE, ![p].pc = "waiting"]
    /\ UNCHANGED <<procVars, fsVars, jobs, envVars, obs, launch>>

\* its systemctl returns once the unit is inactive again
PeerReturns(p) ==
    /\ ProcAt(p, "start", "waiting")
    /\ unit_state[procs[p].unit] = "inactive"
    /\ procs' = [procs EXCEPT ![p] = ProcExit(procs[p], 0)]
    /\ UNCHANGED <<procVars, fsVars, mgrVars, envVars, obs, launch>>

Peer(p) ==
    \/ InvokePeer(p) \/ PeerCheckActive(p) \/ PeerStartRequest(p)
    \/ PeerReturns(p)

NextPair == InvokePair \/ Start \/ Stopper \/ Manager \/ Peer(2)

SpecPair == Init /\ [][NextPair]_vars

\* a step that issues a start request: of main() or of the other process
StartRequested ==
    \/ obs'.start_requests > obs.start_requests
    \/ \E p \in Pids : procs'[p].requested /\ ~procs[p].requested

\* C39 as stated: no start request is issued while a compositor unit is
\* active or activating, also with two start invocations side by side.
C39_RequestExcludesActive ==
    [][StartRequested => ActiveWmUnits = {}]_vars

\* C39: every start request is issued by an invocation whose own test of the
\* active units was made before and found none active or activating; an
\* invocation whose test finds one issues no request, unless a dry run,
\* which issues none either.
C39_RequestAfterOwnCheck ==
    /\ obs.start_requests > 0 =>
          /\ args.mode = "start" /\ obs.generated /\ ~args.dry_run
          /\ ~obs.found_active
    /\ (obs.found_active /\ ~args.dry_run) =>
          run = "exited" /\ exit_status = 1 /\ obs.start_requests = 0
    /\ \A p \in Pids :
         /\ procs[p].requested =>
               procs[p].checked /\ ~procs[p].saw_active
         /\ procs[p].saw_active =>
               procs[p].exited /\ procs[p].rc = 1 /\ ~procs[p].requested

C39_Witness ==
    /\ obs.start_requests = 1 /\ ~obs.found_active
    /\ procs[2].requested /\ ~procs[2].saw_active
    /\ procs[2].unit # wm.wm_id_unit_string
    /\ \A u \in WmUnits : unit_state[u] = "activating"

(***************************************************************************)
(* The lifecycle under fair scheduling: once the handlers are installed    *)
(* the process goes on with the step it stands before whenever that step   *)
(* can be taken, the manager finishes a pending job, and systemctl returns *)
(* (when nothing else ends it, it is terminated).  Signals stay unforced.  *)
(***************************************************************************)
RunStep == StartRequest \/ SystemctlReturns \/ Stopper

SpecLifeFair ==
    /\ Init /\ [][NextLife]_vars
    /\ WF_vars(RunStep)
    /\ WF_vars(JobDone)

\* a start invocation has installed its handlers
HandlersInstalled == run = "running" /\ args.mode = "start" /\ handlers

\* the invocation has run stop_wm() and has exited
StoppedAndExited ==
    /\ run = "exited" /\ args.mode = "start"
    /\ obs.stops >= 1 /\ stopper_initiated
    /\ obs.exit_from \in {"main", "signal"}

\* C40: a start invocation that has installed its handlers eventually runs
\* stop_wm() and exits, whether a signal or the return of systemctl comes
\* first.
C40_EventuallyStopsAndExits == HandlersInstalled ~> StoppedAndExited

C40_Witness ==
    /\ StoppedAndExited /\ obs.exit_from = "signal"
    /\ obs.stop_requests = 1 /\ obs.stop_returned /\ ~obs.returned

\* C36: when main() is about to issue the start request of the compositor
\* unit, generate_units() has returned, the job of the reload (if one was
\* issued) is not in the job list, no change of the units waits for a
\* reload, and the handlers are installed; the request is issued then with
\* the handlers still installed, and an invocation with only-generate or
\* dry-run set issues none.
C36_StartAfterReconcile ==
    /\ At("main", "start") =>
          /\ obs.generated
          /\ Top.job \notin JobIds
          /\ obs.reloads > 0 => Top.job # 0
          /\ ~units_changed
          /\ handlers
          /\ ~args.only_generate /\ ~args.dry_run
          /\ obs.start_requests = 0
    /\ obs.start_requests > 0 =>
          /\ args.mode = "start" /\ obs.generated
          /\ ~args.only_generate /\ ~args.dry_run
          /\ obs.start_requests = 1
    /\ At("main", "waiting") => handlers /\ obs.start_requests = 1

C36_Witness ==
    /\ At("main", "waiting") /\ obs.start_requests = 1
    /\ obs.reloads = 1 /\ Top.job # 0 /\ handlers
    /\ unit_state[wm.wm_id_unit_string] = "activating"

\* C37: cleanup_env() removes cleanup files only in a call whose read of the
\* manager's environment and whose unset request have returned; when one of
\* them raises, every cleanup file found is still on disk, nothing is unset,
\* and the invocation exits with status 1.
C37_FilesKeptOnError ==
    [][(AtCleanupEnv /\ stack' # stack) =>
          /\ obs'.cleanup_error # "" =>
                /\ manifests' = manifests /\ manifests # NoManifests
                /\ obs'.cleanup_files = DOMAIN manifests'
                /\ mgr_env' = mgr_env
                /\ run' = "exited" /\ exit_status' = 1
          /\ manifests' # manifests =>
                /\ obs'.cleanup_error = "" /\ obs'.cleaned
                /\ manifests' = NoManifests
                /\ obs'.cleanup_sent \cap DOMAIN mgr_env' = {}]_vars

C37_Witness ==
    /\ run = "exited" /\ exit_status = 1
    /\ args.aux_action = "cleanup-env"
    /\ obs.cleanup_error = "unset_systemd_vars"
    /\ obs.cleanup_files # {} /\ obs.cleanup_files = DOMAIN manifests
    /\ hist.held # {} /\ hist.held \subseteq DOMAIN mgr_env

\* an aux cleanup-env invocation is running
CleanupOnly ==
    run = "running" /\ args.mode = "aux" /\ args.aux_action = "cleanup-env"

RaceSetEnvs ==
    { [var \in {"FOO"} |-> "1"], [var \in {"PATH"} |-> "/opt/bin"] }

InitRace ==
    /\ run = "idle"
    /\ exit_status = 0
    /\ args = NoArgs
    /\ wm = NoWm
    /\ units_changed = FALSE
    /\ stopper_initiated = FALSE
    /\ handlers = FALSE
    /\ stack = <<>>
    /\ files = <<>>
    /\ dirs = {}
    /\ jobs = {}
    /\ unit_state = [u \in WmUnits |->
                       IF u = simple_systemd_escape(IdSway, FALSE)
                       THEN "activating" ELSE "inactive"]
    /\ mgr_env = [var \in {"PATH"} |-> "/usr/bin"]
    /\ manifests \in {NoManifests,
                       [id \in {Join(IdSway)} |->
                          ManifestLines({}, cleanup_varnames({}))]}
    /\ prep = NoPrep
    /\ hist = NoHist
    /\ obs = NoObs
    /\ launch = NoLaunch
    /\ procs = NoProcs

\* uwsm aux prepare-env sway, as the unit of the session runs it: once
InvokePrepare(p) ==
    /\ \A q \in Pids : procs[q].mode = "none" \/ procs[q].mode = "finalize"
    /\ procs[p].mode = "none"
    /\ \E env \in RaceSetEnvs :
         procs' = [procs EXCEPT ![p] =
                     [NoProc EXCEPT !.mode = "prepare", !.pc = "prep_read",
                                    !.wm_id = Join(IdSway),
                                    !.export_vars = env]]
    /\ UNCHANGED <<procVars, fsVars, mgrVars, envVars, obs, launch>>

\* "if os.path.isfile(cleanup_file): ... else: current_cleanup_varnames =
\* set()"
PrepRead(p) ==
    /\ ProcAt(p, "prepare", "prep_read")
    /\ LET self == procs[p]
       IN  procs' = [procs EXCEPT
                       ![p].current_cleanup_varnames =
                           IF self.wm_id \in DOMAIN manifests
                           THEN ReadNames(manifests[self.wm_id]) ELSE {},
                       ![p].pc = "prep_write"]
    /\ UNCHANGED <<procVars, fsVars, mgrVars, envVars, obs, launch>>

\* "open(cleanup_file, 'w') ... write('\n'.join(sorted(
\* current_cleanup_varnames | cleanup_varnames)))"
PrepRewrite(p) ==
    /\ ProcAt(p, "prepare", "prep_write")
    /\ LET self == procs[p]
           lines == ManifestLines(self.current_cleanup_varnames,
                                  cleanup_varnames(DOMAIN self.export_vars))
       IN  manifests' = [id \in DOMAIN manifests \cup {self.wm_id} |->
                           IF id = self.wm_id THEN lines ELSE manifests[id]]
    /\ procs' = [procs EXCEPT ![p].pc = "prep_export", ![p].wrote = TRUE]
    /\ UNCHANGED <<procVars, fsVars, mgrVars, mgr_env, prep, hist, obs, launch>>

\* set_systemd_vars(set_env), then sys.exit(0)
PrepSend(p) ==
    /\ ProcAt(p, "prepare", "prep_export")
    /\ LET self == procs[p]
       IN  /\ mgr_env' = SetEnvironment(mgr_env, self.export_vars)
           /\ hist' = [hist EXCEPT !.held = @ \cup DOMAIN self.export_vars]
           /\ procs' = [procs EXCEPT ![p] =
                          [ProcExit(self, 0) EXCEPT !.exported = TRUE]]
    /\ UNCHANGED <<procVars, fsVars, mgrVars, manifests, prep, obs, launch>>

PrepareProc(p) == PrepRead(p) \/ PrepRewrite(p) \/ PrepSend(p)

\* one finalize per process: the compositor runs it once it is up
InvokeFinalizeOnce(p) == procs[p].mode = "none" /\ InvokeFinalize(p)

NextRace ==
    \E p \in Pids :
      \/ InvokePrepare(p) \/ PrepareProc(p)
      \/ InvokeFinalizeOnce(p) \/ Finalize(p)

SpecRace == InitRace /\ [][NextRace]_vars

\* the names an invocation recorded in the cleanup file
Recorded(self) ==
    IF self.mode = "prepare"
    THEN cleanup_varnames(DOMAIN self.export_vars)
    ELSE DOMAIN self.export_vars

\* C34 as stated: once a prepare-env and a finalize, or two finalize, of one
\* session have both finished, the cleanup file holds every name either of
\* them recorded.
C34_NoNameLost ==
    (\A p \in Pids : procs[p].exited) =>
       \A p \in Pids :
         procs[p].wrote =>
           Recorded(procs[p]) \subseteq ReadNames(manifests[procs[p].wm_id])

\* the scenario: the manager holds PATH=/usr/bin, the shell leaves
\* PATH=/usr/bin and WAYLAND_DISPLAY=wayland-1
Scenario ==
    /\ prep.live
    /\ prep.systemd_vars = [var \in {"PATH"} |-> "/usr/bin"]
    /\ prep.env_post = [var \in {"PATH", "WAYLAND_DISPLAY"} |->
                          IF var = "PATH" THEN "/usr/bin" ELSE "wayland-1"]

\* C9 as stated: in the scenario the exported dict contains
\* WAYLAND_DISPLAY=wayland-1 and nothing is unset.
C9_ScenarioExportsWayland ==
    Scenario =>
       /\ <<"WAYLAND_DISPLAY", "wayland-1">> \in Items(prep.set_env)
       /\ prep.unset_varnames = {}

\* C9: in the scenario the exported dict is PATH=/usr/bin alone, the
\* always_export name found in post; WAYLAND_DISPLAY is an always_unset name
\* and is not exported; nothing is unset, and the manager holds
\* PATH=/usr/bin alone afterwards.
C9_ScenarioExportsPathOnly ==
    Scenario =>
       /\ prep.set_env = [var \in {"PATH"} |-> "/usr/bin"]
       /\ prep.unset_varnames = {}
       /\ prep.exported => mgr_env = [var \in {"PATH"} |-> "/usr/bin"]

C9_Witness == Scenario /\ prep.exported

\* C10 as stated: the cleanup set of one prepare_env() run is the keys of
\* the exported dict united with always_cleanup, minus never_cleanup.
C10_CleanupSetExcludesNever ==
    prep.live =>
       prep.cleanup_varnames =
           (DOMAIN prep.set_env \cup always_cleanup) \ never_cleanup

\* C11 as stated: every name cleanup_env() sends in its unset request is a
\* name the manager holds when the request is made.
C11_CleanupSendsHeldOnly ==
    [][(AtCleanupEnv /\ obs'.cleanups = 1)
          => obs'.cleanup_sent \subseteq DOMAIN mgr_env]_vars

\* C12: without a cleanup file cleanup_env() returns False, sends no unset
\* request and removes nothing, so the manager's environment and the files
\* stay as they are however often it is called; after a cleanup_env() that
\* returned no cleanup file exists.
C12_NoManifestNoEffect ==
    /\ []((obs.cleanups = 1 /\ obs.cleanup_error = "") =>
            DOMAIN manifests = {})
    /\ [][(AtCleanupEnv /\ DOMAIN manifests = {}) =>
             /\ mgr_env' = mgr_env /\ manifests' = manifests
             /\ files' = files /\ dirs' = dirs
             /\ obs'.cleanups = 1 /\ ~obs'.cleaned /\ obs'.cleanup_unsets = 0
             /\ run' = "exited"
             /\ exit_status' = IF args.aux_action = "prepare-env" THEN 1 ELSE 0
         ]_vars

C12_Witness ==
    /\ run = "exited" /\ args.aux_action = "cleanup-env"
    /\ obs.cleanups = 1 /\ ~obs.cleaned
    /\ "PATH" \notin DOMAIN mgr_env

\* generate_units() has run in this invocation with dry-run off
Generated == obs.generated /\ ~args.dry_run

\* C13: after generate_units() the preloader drop-in exists exactly if a
\* name, a desktop name setting or an argument is given, the service drop-in
\* exactly if a name, a description or an argument is given; an existing
\* drop-in holds the marker of the id and the override content, and a stale
\* one is gone.
C13_DropInsFollowDescriptor ==
    Generated =>
       LET preloader == wm_specific_preloader(wm)
           service == wm_specific_service(wm)
           preloader_content ==
               \/ wm.wm_name # "" \/ wm.wm_cli_args # <<>>
               \/ wm.wm_cli_desktop_names_exclusive
               \/ wm.wm_desktop_names # <<wm.wm_cmdline[1]>>
           service_content ==
               wm.wm_name # "" \/ wm.wm_description # "" \/ wm.wm_cli_args # <<>>
       IN  /\ preloader \in DOMAIN files <=> preloader_content
           /\ service \in DOMAIN files <=> service_content
           /\ preloader_content =>
                 files[preloader] = [marker |-> wm.wm_id,
                                     data |-> wm_specific_preloader_data(wm)]
           /\ service_content =>
                 files[service] = [marker |-> wm.wm_id,
                                   data |-> wm_specific_service_data(wm)]

C13_Witness ==
    /\ Generated /\ obs.dropped
    /\ wm_specific_preloader(wm) \notin DOMAIN files
    /\ wm_specific_service(wm) \notin DOMAIN files

\* the scenario: id "sway" alone on the command line, an empty unit root
PlainSwayOnEmptyRoot ==
    /\ Generated /\ obs.root_empty
    /\ args.d = Plain(IdSway) /\ wm.wm_desktop_names = <<"sway">>

\* the files that are not drop-ins of a compositor id
GenericFiles == {u \in DOMAIN files : files[u].marker = "GENERIC"}

\* C14 as stated: in the scenario generate_units() creates 9 generic files
\* and no drop-in of the id.
C14_NineGenericFiles ==
    PlainSwayOnEmptyRoot =>
       /\ Cardinality(GenericFiles) = 9
       /\ DOMAIN files = GenericFiles

\* C14: in the scenario generate_units() creates ten generic units (four
\* targets, three services, three slices) and the generic drop-in
\* app-@autostart.service.d/slice-tweak.conf, eleven files, and no drop-in
\* of the id.
C14_ElevenGenericFiles ==
    PlainSwayOnEmptyRoot =>
       /\ Cardinality({u \in GenericFiles : Len(u) = 1}) = 10
       /\ Cardinality({u \in GenericFiles : u[1][2] = "target"}) = 4
       /\ Cardinality({u \in GenericFiles : u[1][2] = "service"}) = 3
       /\ Cardinality({u \in GenericFiles : u[1][2] = "slice"}) = 3
       /\ {u \in GenericFiles : Len(u) = 2} =
              {<< <<"app-@autostart.service", "d">>, <<"slice-tweak", "conf">> >>}
       /\ DOMAIN files = GenericFiles

C14_Witness == PlainSwayOnEmptyRoot /\ run = "exited" /\ obs.reloads = 1

\* C15: update_unit returns True exactly if the content differs from the
\* file's (a missing file reads as the empty string) and then sets
\* units_changed; on equal content the files and the flag stay; on a
\* difference with dry-run off the file holds the new content afterwards
\* and the other files stay; with dry-run on no file changes.
C15_UpdateUnitReportsDifference ==
    [][(obs'.call.op = "update_unit" /\ ~obs'.call.raised) =>
          LET c == obs'.call
              old_data == IF c.unit \in DOMAIN files
                          THEN files[c.unit] ELSE NoData
          IN  /\ c.ret <=> (c.data # old_data)
              /\ c.ret => units_changed'
              /\ ~c.ret => (files' = files /\ units_changed' = units_changed)
              /\ (c.ret /\ ~c.dry) =>
                    /\ DOMAIN files' = DOMAIN files \cup {c.unit}
                    /\ files'[c.unit] = c.data
                    /\ \A u \in DOMAIN files \ {c.unit} : files'[u] = files[u]
              /\ c.dry => (files' = files /\ dirs' = dirs)
      ]_vars

C15_Witness ==
    /\ obs.call.op = "update_unit" /\ obs.call.ret /\ ~obs.call.dry
    /\ obs.call.unit \in DOMAIN files
    /\ files[obs.call.unit] = obs.call.data
    /\ obs.call.data.data = <<"[Unit]", "Description=y">>

\* the final extension of the path is one of the unit types, or the path is
\* a .conf file in a .d directory
AllowedExtension(unit) ==
    LET last == unit[Len(unit)]
    IN  /\ Len(last) = 2
        /\ \/ last[2] \in {"service", "slice", "scope", "target", "socket"}
           \/ /\ last[2] = "conf"
              /\ Len(unit) >= 2
              /\ Len(unit[Len(unit) - 1]) = 2
              /\ unit[Len(unit) - 1][2] = "d"

\* C17 as stated: update_unit and remove_unit raise for every path whose
\* final extension is not allowed.
C17_BadExtensionRaises ==
    (obs.call.op \in {"update_unit", "remove_unit"}
     /\ ~AllowedExtension(obs.call.unit)) => obs.call.raised

\* C18 as stated: after remove_units (dry-run off) no file with the marker
\* of the given id, or with any marker when no id is given, is left.
C18_MarkedFilesRemoved ==
    (obs.call.op = "remove_units" /\ ~obs.call.dry) =>
        \A u \in DOMAIN files : ~Marked(files[u], obs.call.only)

\* C16: while a dry-run invocation runs, no step changes a file or a
\* directory of the unit root or queues a job, and no reload, start or stop
\* request is counted; the step of the program at a malformed id still
\* ends the start with status 1, and its generate_units step reports the
\* change a real run would make.
C16_DryRunNoEffect ==
    [][(run = "running" /\ args.dry_run) =>
          /\ files' = files /\ dirs' = dirs
          /\ jobs' \subseteq jobs
          /\ obs'.reloads = 0 /\ obs'.start_requests = 0
          /\ obs'.stop_requests = 0 /\ ~obs'.wrote
          /\ (At("main", "fill") /\ ~Val_wm_id(args.d.wm_id)
                 /\ stack' # stack) =>
                (run' = "exited" /\ exit_status' = 1)
          /\ (At("main", "generate") /\ stack' # stack) =>
                obs'.gen_changed =
                    GenerateUnits(files, dirs, wm, args.use_session_slice,
                                  FALSE).changed]_vars

\* a dry-run start has ended after reporting a change, the unit root still
\* empty
C16_Witness ==
    /\ run = "exited" /\ exit_status = 0
    /\ args.mode = "start" /\ args.dry_run
    /\ obs.generated /\ obs.gen_changed
    /\ DOMAIN files = {} /\ dirs = {}

\* the frame on top of the stack leaves the wait of reload_systemd or of
\* stop_wm without an exception
WaitReturns ==
    /\ run = "running" /\ stack # <<>>
    /\ Top.pc \in {"reload_wait", "stop_wait"}
    /\ run' = "running" /\ Len(stack') = Len(stack)
    /\ stack'[Len(stack)].pc \notin {"reload_wait", "stop_wait"}
    /\ stack'[Len(stack)].stop_rc = Top.stop_rc

\* C19: reload_systemd and stop_wm leave their wait only when the handle
\* they obtained is not among the handles ListJobs() returns; while it is
\* listed they stay in the wait.
C19_ReturnsWhenJobAbsent ==
    [][WaitReturns => (Top.job \notin JobIds /\ jobs' = jobs)]_vars

\* stop_wm has sent a stop request from the signal handler and returned,
\* its job gone
C19_Witness ==
    /\ run = "running" /\ stack # <<>>
    /\ Top.fn = "trap_stopper" /\ Top.pc = "ts_exit"
    /\ obs.stop_requests = 1 /\ Top.stop_rc = 0
    /\ Top.job # 0 /\ Top.job \notin JobIds
    /\ obs.reloads = 1

\* the start command meets a failed precondition: a malformed id, an
\* executable that is not in PATH, or an active unit with dry-run off
PreconditionFails ==
    /\ args.mode = "start" /\ run \in {"running", "exited"}
    /\ \/ ~Val_wm_id(args.d.wm_id)
       \/ ~args.d.in_path
       \/ obs.found_active /\ ~args.dry_run

\* C20: a start whose precondition fails never gets past the checks: it
\* ends with a non-zero status, has run no generate_units, changed no unit
\* file and sent no reload, start or stop request.
C20_PreconditionFailureExits ==
    PreconditionFails =>
        /\ run = "running" => (stack # <<>> /\ Top.pc \in {"fill", "check_active"})
        /\ run = "exited" => exit_status # 0
        /\ ~obs.generated /\ ~obs.wrote
        /\ obs.reloads = 0 /\ obs.start_requests = 0 /\ obs.stop_requests = 0

\* a start with dry-run off found a unit active and has ended, the units
\* of an earlier start still in place
C20_Witness ==
    /\ PreconditionFails /\ obs.found_active /\ ~args.dry_run
    /\ run = "exited" /\ exit_status = 1
    /\ DOMAIN files # {}

\* C21 as stated: a start invocation whose systemctl call returned with
\* code rc exits with rc.
C21_ExitsWithReturnCode ==
    (run = "exited" /\ args.mode = "start" /\ obs.returned) =>
        exit_status = obs.sprc

\* C21: a start invocation that ends in trap_stopper exits with the code of
\* systemctl when the call main made after systemctl returned reaches the
\* exit, whatever the stop step did, and with 0 or 1 by the stop step when
\* a signal's handler reaches it, also when systemctl has returned before;
\* with no signal after the return the call of main reaches it.
C21_ExitCodeByCaller ==
    (run = "exited" /\ args.mode = "start") =>
        /\ obs.exit_from = "main" => (obs.returned /\ exit_status = obs.sprc)
        /\ obs.exit_from = "signal" =>
              exit_status = (IF obs.stop_raised THEN 1 ELSE 0)
        /\ obs.returned => obs.exit_from # ""
        /\ (obs.returned /\ obs.signals = 0) => obs.exit_from = "main"

\* systemctl was terminated, the stop step raised, and the invocation has
\* exited with the code of systemctl
C21_Witness ==
    /\ run = "exited" /\ args.mode = "start"
    /\ obs.returned /\ obs.sprc = -15 /\ obs.stop_raised
    /\ obs.exit_from = "main" /\ exit_status = -15

\* app() has run in this invocation on a desktop entry
AppRan ==
    /\ args.mode = "app" /\ run \in {"running", "exited", "replaced"}
    /\ ~At("main", "app")
    /\ launch.inp.is_entry

\* the words after the command in the Exec line the invocation uses
Template ==
    LET inp == launch.inp
        exec == IF inp.entry_action = "" THEN inp.entry.Exec
                ELSE inp.entry.Actions[inp.entry_action].Exec
    IN  Tail(exec)

\* the positions of the template that hold one of %f, %F, %u, %U
FieldPositions ==
    {i \in 1..Len(Template) :
        Template[i] \in {W("%f"), W("%F"), W("%u"), W("%U")}}

\* C22: for a template with more than one of the fields %f, %F, %u, %U, the
\* same one twice included, gen_entry_args raises whatever the arguments
\* are: it returns no argv, no process is started, app ends with status 1,
\* and the entry is left in its default group.
C22_ConflictingFieldsFail ==
    (AppRan /\ Cardinality(FieldPositions) > 1) =>
        /\ launch.gen.raised
        /\ launch.gen.args = <<>> /\ launch.gen.instances = <<>>
        /\ launch.gen.group = launch.inp.entry.defaultGroup
        /\ launch.sub_apps = <<>> /\ launch.single.cmdline = <<>>
        /\ run = "exited" /\ exit_status = 1

\* the template "%u --and %u" was given three arguments and was refused
C22_Witness ==
    /\ AppRan /\ launch.gen.raised
    /\ Template = <<W("%u"), W("--and"), W("%u")>>
    /\ Len(launch.inp.arguments) = 3
    /\ run = "exited" /\ exit_status = 1

\* an iterative launch: more than one argument for a template whose only
\* field is %f or %u, the command being in PATH
IterativeCase ==
    /\ AppRan /\ launch.inp.in_path
    /\ Len(launch.inp.arguments) > 1
    /\ Cardinality(FieldPositions) = 1
    /\ \A i \in FieldPositions : Template[i] \in {W("%f"), W("%u")}

\* the number of words a template element renders to: %i gives "--icon"
\* and the icon, or nothing without an icon
Width(word) ==
    IF word = W("%i") THEN (IF launch.inp.entry.Icon # "" THEN 2 ELSE 0) ELSE 1

RECURSIVE WidthBefore(_)
WidthBefore(i) == IF i <= 1 THEN 0 ELSE WidthBefore(i - 1) + Width(Template[i - 1])

\* the position of the field in the rendered command line, the command
\* being at position 1
FieldSlot == 2 + WidthBefore(CHOOSE i \in FieldPositions : TRUE)

\* the i-th argument as the field renders it
Rendered(i) ==
    LET arg == launch.inp.arguments[i]
    IN  IF Template[CHOOSE f \in FieldPositions : TRUE] = W("%u")
           /\ arg.scheme = ""
        THEN FileUrl(arg) ELSE arg

\* C23 as stated: an iterative launch makes one launch per argument, the
\* i-th with the i-th argument at the position of the field and the other
\* words the same in all of them.
C23_OneLaunchPerArgument ==
    IterativeCase =>
        /\ Len(launch.sub_apps) = Len(launch.inp.arguments)
        /\ \A i \in 1..Len(launch.sub_apps) :
             LET cmdline == launch.sub_apps[i].cmdline
             IN  /\ Len(cmdline) = Len(launch.sub_apps[1].cmdline)
                 /\ FieldSlot <= Len(cmdline)
                 /\ cmdline[FieldSlot] = Rendered(i)
                 /\ \A q \in 1..Len(cmdline) :
                      q # FieldSlot => cmdline[q] = launch.sub_apps[1].cmdline[q]

\* C24: app has exited after an iterative launch only when every process
\* it started has ended, and its status is 0 exactly when every return
\* code is 0.
C24_ExitAfterAllChildren ==
    (args.mode = "app" /\ run = "exited" /\ launch.sub_apps # <<>>) =>
        /\ \A i \in 1..Len(launch.sub_apps) : ~launch.sub_apps[i].alive
        /\ exit_status = 0 <=>
             \A i \in 1..Len(launch.sub_apps) :
                launch.sub_apps[i].returncode = 0

\* three processes ended, the last started first, one of them killed, and
\* app has exited with 1
C24_Witness ==
    /\ args.mode = "app" /\ run = "exited" /\ exit_status = 1
    /\ Len(launch.sub_apps) = 3
    /\ launch.sub_apps[1].returncode = 0
    /\ launch.sub_apps[2].returncode = -9
    /\ launch.sub_apps[3].returncode = 0
    /\ \A i \in 1..3 : launch.sub_apps_rc[i].done

\* the unit names app() made up in this invocation
UnitNames ==
    {launch.sub_apps[i].unit_name : i \in 1..Len(launch.sub_apps)}
    \cup (IF launch.single.unit_name = <<>> THEN {}
          ELSE {launch.single.unit_name})

\* every backslash of the name starts a whole \xNN sequence
WholeEscapes(name) ==
    \A i \in 1..Len(name) :
       name[i] = "\\" =>
          /\ i + 3 <= Len(name)
          /\ name[i + 1] = "x"
          /\ name[i + 2] \in {"0", "1", "2", "3", "4", "5", "6", "7", "8",
                              "9", "a", "b", "c", "d", "e", "f"}
          /\ name[i + 3] \in {"0", "1", "2", "3", "4", "5", "6", "7", "8",
                              "9", "a", "b", "c", "d", "e", "f"}

\* C25: every unit name app() makes up has at most 255 characters and ends
\* neither of its substrings inside a \xNN sequence.
C25_UnitNameBound ==
    \A name \in UnitNames : Len(name) <= 255 /\ WholeEscapes(name)

\* a name of a desktop and an app name that are both too long and both
\* hold escapes has been made up
C25_Witness ==
    /\ launch.single.unit_name # <<>>
    /\ Len(launch.single.unit_name) >= 250
    /\ launch.inp.desktop = Run("a", 104) \o Run("!", 1) \o Run("a", 1) \o Run("-", 2)
    /\ launch.inp.app_name = Run("-", 35) \o Run("a", 150)

(***************************************************************************)
(* The aux entry points.                                                   *)
(***************************************************************************)
AuxPrepare == args.mode = "aux" /\ args.aux_action = "prepare-env"

AuxCleanupOf == args.mode = "aux" /\ args.aux_action = "cleanup-env"

\* C26 as stated: an aux invocation performs the one requested action only,
\* on failure paths too, so that a prepare-env invocation never runs
\* cleanup_env().
C26_AuxRunsOnlyRequested == AuxPrepare => obs.cleanups = 0

\* C26: an aux invocation runs prepare_env() and cleanup_env() at most once
\* each and exits once its last action is done.  A cleanup-env invocation
\* never runs prepare_env().  A prepare-env invocation runs cleanup_env()
\* only after its prepare_env() raised, and then exits with 1; when
\* prepare_env() returned it exits with 0 and has run no cleanup_env().
C26_AuxRunsRequestedAction ==
    args.mode = "aux" =>
      /\ obs.prepares <= 1 /\ obs.cleanups <= 1
      /\ obs.cleanups = 1 => run = "exited"
      /\ AuxCleanupOf => obs.prepares = 0
      /\ AuxPrepare =>
           /\ obs.cleanups = 1 => obs.prepares = 1 /\ obs.prep_error # ""
           /\ run = "exited" /\ obs.prep_error # "" =>
                obs.cleanups = 1 /\ exit_status = 1
           /\ run = "exited" /\ obs.prepares = 1 /\ obs.prep_error = "" =>
                obs.cleanups = 0 /\ exit_status = 0

\* a prepare-env invocation whose prepare_env() raised has run cleanup_env()
\* and exited with 1
C26_Witness ==
    /\ AuxPrepare /\ run = "exited" /\ exit_status = 1
    /\ obs.prepares = 1 /\ obs.prep_error = "vt" /\ obs.cleanups = 1

(***************************************************************************)
(* The soft check of graphical.target.                                     *)
(***************************************************************************)
\* a step of main() from the given position
MainStep(pc) == At("main", pc) /\ (stack' # stack \/ run' # run)

\* C27: a start invocation that finds graphical.target neither active nor
\* activating warns, sleeps the grace delay and leaves the check as it does
\* when the target is reached: a dry run exits with 0 there, every other
\* start goes on, installs the signal handlers and issues the start
\* request; no start that warned ends without having issued the request.
C27_SoftGraphicalCheck ==
    /\ [][ /\ MainStep("graphical") /\ obs'.warned =>
               /\ obs'.slept = GraceDelay
               /\ IF args.dry_run
                  THEN run' = "exited" /\ exit_status' = 0
                  ELSE run' = "running" /\ stack' = Goto("install")
           /\ MainStep("install") => handlers' /\ stack' = Goto("start")
           /\ MainStep("start") =>
               /\ obs'.start_requests = obs.start_requests + 1
               /\ stack' = Goto("waiting") ]_vars
    /\ [](obs.warned /\ ~args.dry_run /\ run = "exited" =>
            obs.start_requests = 1)

\* a start that warned has installed the handlers and issued its request
C27_Witness ==
    /\ args.mode = "start" /\ ~args.dry_run /\ obs.warned
    /\ obs.slept = GraceDelay /\ handlers /\ obs.start_requests = 1
    /\ At("main", "waiting")

(***************************************************************************)
(* stop_wm() and the stop command.                                         *)
(***************************************************************************)
\* what holds once stop_wm() found no unit active or activating
NothingToStop ==
    /\ obs.stop_requests = 0 /\ obs.stop_units = <<>>
    /\ obs.stop_returned /\ ~obs.stop_result
    /\ args.mode = "stop" /\ run = "exited" => exit_status = 0

\* C28 as stated: stop_wm() that finds no unit sends no stop request and
\* returns False, and the stop command exits with 0; stop_wm() that finds
\* units sends exactly one stop request, for the first of them.
C28_StopsFirstUnitFound ==
    obs.listed =>
      IF obs.units = <<>>
      THEN NothingToStop
      ELSE obs.stop_units = <<obs.units[1]>>

\* C28: stop_wm() that finds no unit active or activating sends no stop
\* request and returns False, and the stop command exits with 0.  When it
\* finds units and this is not a dry run it sends exactly one stop request,
\* for the first unit of the list, and returns True once the job is gone;
\* in a dry run it sends no request and returns True.
C28_StopsFirstUnitUnlessDryRun ==
    obs.listed =>
      IF obs.units = <<>>
      THEN NothingToStop
      ELSE /\ obs.stop_units = IF args.dry_run THEN <<>>
                               ELSE <<obs.units[1]>>
           /\ obs.stop_requests = Len(obs.stop_units)
           /\ obs.stop_returned => obs.stop_result
           /\ args.dry_run => obs.stop_returned

\* a stop command that found two units has sent its one request for the
\* first and has exited
C28_Witness ==
    /\ args.mode = "stop" /\ ~args.dry_run /\ run = "exited"
    /\ obs.listed /\ Len(obs.units) = 2
    /\ obs.stop_units = <<obs.units[1]>> /\ obs.stop_result

(***************************************************************************)
(* The names prepare_env() sends to the manager.                           *)
(***************************************************************************)
\* the shell-identifier predicate on a name
ShellIdentifier(var) == var \in ValidNames

\* the entries of the shell output that have a value
WithValue(stdout) == {e \in stdout : Len(e) = 2}

\* C29: every name prepare_env() exports to or unsets in the manager is a
\* shell identifier; the entries of the manager's environment and of the
\* shell output whose name is not one, and the output entries without "=",
\* are left out of the snapshots while every other entry is kept, and a
\* prepare_env() whose shell printed the mark and returned 0 goes on to its
\* requests whatever the entries are: it raises only if a request fails.
C29_ValidNamesOnly ==
    /\ prep.live =>
         /\ \A var \in DOMAIN prep.set_env \cup prep.unset_varnames
                        \cup DOMAIN prep.sent_set \cup prep.sent_unset :
              ShellIdentifier(var)
         /\ prep.systemd_varnames =
              {var \in DOMAIN prep.systemd_vars : ShellIdentifier(var)}
         /\ DOMAIN prep.env_pre = prep.systemd_varnames \cup DOMAIN VtVars
         /\ DOMAIN prep.env_post =
              {e[1] : e \in {x \in WithValue(prep.stdout) :
                               ShellIdentifier(x[1])}}
    /\ obs.shell.ran /\ obs.shell.marked /\ obs.shell.returncode = 0 =>
         /\ obs.prep_error \in {"", "request"}
         /\ obs.prep_error = "" /\ run = "running" => prep.live

\* a prepare_env() that met an invalid name in the manager's environment,
\* invalid names and an entry without "=" in the shell output has made its
\* requests
C29_Witness ==
    /\ At("main", "prep_exit") /\ prep.exported
    /\ "_" \in DOMAIN prep.systemd_vars
    /\ {<<"garbage">>, <<"", "z">>, <<"9LIVES", "x">>, <<"MY-VAR", "y">>}
         \subseteq prep.stdout
    /\ prep.sent_set # EmptyDict /\ prep.sent_unset # {}

(***************************************************************************)
(* prepare_env() after a failed shell run.                                 *)
(***************************************************************************)
\* the shell output lacks the mark or the shell returned non-zero
ShellRunFailed(shell) ==
    shell.ran /\ (~shell.marked \/ shell.returncode # 0)

\* C30: a prepare_env() whose shell output does not contain the mark, or
\* whose shell returns non-zero, raises: it writes no cleanup file and sends
\* no set and no unset request, the manager's environment and the cleanup
\* files are as they were when it was called, and the invocation never
\* gets to the write or to the requests.
C30_FailedShellChangesNothing ==
    /\ [][MainStep("prepare_env") /\ ShellRunFailed(obs'.shell) =>
            /\ mgr_env' = mgr_env /\ manifests' = manifests
            /\ hist' = hist /\ prep' = NoPrep
            /\ obs'.prep_error \in {"mark", "shell"}
            /\ stack' = Goto("cleanup_env")]_vars
    /\ [](ShellRunFailed(obs.shell) =>
            /\ ~prep.live /\ prep.sent_set = EmptyDict /\ prep.sent_unset = {}
            /\ run = "running" => At("main", "cleanup_env")
            /\ run = "exited" => exit_status = 1)

\* prepare_env() has raised on a shell output without the mark, from a
\* manager environment and a cleanup file that an earlier run has left
C30_Witness ==
    /\ At("main", "cleanup_env") /\ obs.prep_error = "mark"
    /\ ~obs.shell.marked /\ manifests # NoManifests
    /\ "FOO" \in DOMAIN mgr_env

====
